---- MODULE Spec2Model ----
(***************************************************************************)
(* Model of epubstandard v1.3.4 (src/epubstandard.py): the batch runner,   *)
(* the per-archive orchestrator, the idempotency marker and the note       *)
(* linking engine (pass 1 per document, pass 2 backlinks).                 *)
(*                                                                         *)
(* Strings that the code inspects (ids, visible text, paths) are modelled  *)
(* as sequences of tokens: a digit is one token, every other token is an   *)
(* indivisible piece of text ("ref", "-", "fn", ...).  Suffix, prefix and  *)
(* substring tests of the code are the same tests on token sequences.      *)
(***************************************************************************)
EXTENDS Integers, Sequences, FiniteSets, TLC

\* ---------------------------------------------------------------------
\* Bounds of the model
\* ---------------------------------------------------------------------
MaxRuns == 2
MaxElems == 3
MaxPasses == 2

\* The longest spine given to the banner pass alone
MaxSpine == 3

\* The largest number of errors the validator reports
MaxErrors == 2

\* The largest number of sibling nodes of a body given to the paragraph
\* merge alone
MaxNodes == 4

\* ---------------------------------------------------------------------
\* Token strings
\* ---------------------------------------------------------------------
None == <<"<None>">>

DigitTokens == {"0", "1", "2", "3", "4", "5", "6", "7", "8", "9"}

IsDigit(t) == t \in DigitTokens

RECURSIVE SeqFoldLeft(_, _, _)
SeqFoldLeft(Op(_, _), acc, s) ==
  IF s = <<>> THEN acc ELSE SeqFoldLeft(Op, Op(acc, Head(s)), Tail(s))

EndsWith(s, suf) ==
  /\ Len(suf) <= Len(s)
  /\ SubSeq(s, Len(s) - Len(suf) + 1, Len(s)) = suf

StartsWith(s, pre) ==
  /\ Len(pre) <= Len(s)
  /\ SubSeq(s, 1, Len(pre)) = pre

\* Python's `sub in s` on strings
Contains(s, sub) ==
  \E i \in 1..(Len(s) - Len(sub) + 1) : SubSeq(s, i, i + Len(sub) - 1) = sub

\* re.search(r'(\d+)$', s): the maximal run of digits that ends the string
\* (<<>> when the string does not end in a digit)
RECURSIVE TrailingDigits(_)
TrailingDigits(s) ==
  IF s = <<>> \/ ~IsDigit(s[Len(s)]) THEN <<>>
  ELSE Append(TrailingDigits(SubSeq(s, 1, Len(s) - 1)), s[Len(s)])

DigitOf(n) == CASE n = 0 -> "0" [] n = 1 -> "1" [] n = 2 -> "2" [] n = 3 -> "3"
                [] n = 4 -> "4" [] n = 5 -> "5" [] n = 6 -> "6" [] n = 7 -> "7"
                [] n = 8 -> "8" [] n = 9 -> "9"

\* str(n) for a natural number
RECURSIVE NatToTokens(_)
NatToTokens(n) ==
  IF n < 10 THEN <<DigitOf(n)>>
  ELSE Append(NatToTokens(n \div 10), DigitOf(n % 10))

\* dict.get(k, default) on a function used as a dict
Get(map, k, default) == IF k \in DOMAIN map THEN map[k] ELSE default

\* dict[k] = v
Put(map, k, v) == [x \in (DOMAIN map) \cup {k} |-> IF x = k THEN v ELSE map[x]]

EmptyMap == [x \in {} |-> <<>>]

InSeq(x, s) == \E i \in 1..Len(s) : s[i] = x

\* ---------------------------------------------------------------------
\* Content documents
\*
\* A document is [path, elems]: path is the sequence of its path
\* components inside the working directory, elems its elements in
\* document order.  An element is a record
\*   tag      "sup" | "a" | "span" | "p" | "div" | "aside" | "li"
\*   id       the id attribute (None when absent)
\*   typed    epub:type="noteref" is set
\*   classed  the class attribute contains "noteref"
\*   role     the role attribute (None when absent)
\*   text     the visible text (itertext) as tokens
\*   longtext the visible text has at least 10 characters
\*   href, aria   attributes of an <a> element (None when absent)
\*   anchor   the <a> child holding the element's content (0 or 1)
\*   backlinks  the <a class="backlink"> children, in order
\* ---------------------------------------------------------------------
NoHref == [path |-> None, frag |-> None]

\* f'#{target_id}'
FragmentHref(target_id) == [path |-> <<>>, frag |-> target_id]

Falsy(v) == v = None \/ v = <<>>

\* SUPERSCRIPT_MAP.get(ch, ch)
SUPERSCRIPT_MAP(ch) ==
  CASE ch = "SUP1" -> "1" [] ch = "SUP2" -> "2" [] ch = "SUP3" -> "3"
    [] OTHER -> ch

\* SYMBOLS, in the dict's insertion order: (character, key)
SYMBOLS == << <<"*", <<"star">> >>, <<"DAGGER", <<"dagger">> >>,
              <<"DDAGGER", <<"double", "-", "dagger">> >>, <<"^", <<"caret">> >> >>

SymbolChars == {SYMBOLS[i][1] : i \in 1..Len(SYMBOLS)}

\* MIXED_SYM_RE.match(norm): ^\s*([*†‡^])\s*(\d+)\s*$
MIXED_SYM_RE(norm) ==
  \E i \in 1..Len(norm) : \E j \in (i + 1)..Len(norm) : \E k \in j..Len(norm) :
     /\ \A x \in 1..(i - 1) : norm[x] = " "
     /\ norm[i] \in SymbolChars
     /\ \A x \in (i + 1)..(j - 1) : norm[x] = " "
     /\ \A x \in j..k : IsDigit(norm[x])
     /\ \A x \in (k + 1)..Len(norm) : norm[x] = " "

\* f'ref-{key}' and f'ref-{key}-{seq}'
RefIdFirst(key) == <<"ref", "-">> \o key

RefIdSeq(key, seq) == <<"ref", "-">> \o key \o <<"-">> \o NatToTokens(seq)

\* Handles of the nodes of a document: <<i, 0>> is element i, <<i, 1>> its
\* anchor child.  AllNodes lists them in document order.
RECURSIVE AllNodesFrom(_, _)
AllNodesFrom(elems, i) ==
  IF i > Len(elems) THEN <<>>
  ELSE (IF elems[i].anchor = <<>> THEN << <<i, 0>> >> ELSE << <<i, 0>>, <<i, 1>> >>)
       \o AllNodesFrom(elems, i + 1)

AllNodes(elems) == AllNodesFrom(elems, 1)

NodeTag(elems, h) == IF h[2] = 1 THEN "a" ELSE elems[h[1]].tag

NodeId(elems, h) ==
  IF h[2] = 1 THEN elems[h[1]].anchor[1].id ELSE elems[h[1]].id

NodeTyped(elems, h) ==
  IF h[2] = 1 THEN elems[h[1]].anchor[1].typed ELSE elems[h[1]].typed

NodeClassed(elems, h) ==
  IF h[2] = 1 THEN elems[h[1]].anchor[1].classed ELSE elems[h[1]].classed

\* ''.join(ref.itertext()): the anchor child holds the element's text
NodeText(elems, h) == elems[h[1]].text

SetNodeId(elems, h, id) ==
  IF h[2] = 1
  THEN [elems EXCEPT ![h[1]].anchor = <<[@[1] EXCEPT !.id = id]>>]
  ELSE [elems EXCEPT ![h[1]].id = id]

Dedupe(s) ==
  SeqFoldLeft(LAMBDA acc, x : IF InSeq(x, acc) THEN acc ELSE Append(acc, x), <<>>, s)

\* find_noterefs: all <sup>, then all epub:type=noteref, then all
\* class~=noteref, each group in document order, duplicates dropped
find_noterefs(elems) ==
  LET nodes == AllNodes(elems)
      sups == SelectSeq(nodes, LAMBDA h : NodeTag(elems, h) = "sup")
      typed == SelectSeq(nodes, LAMBDA h : NodeTyped(elems, h))
      classed == SelectSeq(nodes, LAMBDA h : NodeClassed(elems, h))
  IN Dedupe(sups \o typed \o classed)

\* NOTE_ID_PATTERNS: ^(fn|footnote|note)[-_]?\d+$, ^note\d+$, ^\d+$
NOTE_ID_PATTERNS(nid) ==
  LET d == TrailingDigits(nid)
      pre == SubSeq(nid, 1, Len(nid) - Len(d))
  IN /\ d # <<>>
     /\ \/ pre = <<>>
        \/ \E w \in {"fn", "footnote", "note"} :
             pre = <<w>> \/ pre = <<w, "-">> \/ pre = <<w, "_">>

is_note_block(el) ==
  IF el.tag \in {"sup", "a"} THEN FALSE
  ELSE IF el.role = <<"doc-footnote">> THEN TRUE
  ELSE /\ ~Falsy(el.id)
       /\ NOTE_ID_PATTERNS(el.id)
       /\ el.longtext

\* find_note_blocks: indices of the elements with @id or @role that look
\* like note blocks, in document order
find_note_blocks(elems) ==
  SelectSeq([i \in 1..Len(elems) |-> i],
            LAMBDA i : (elems[i].id # None \/ elems[i].role # None)
                       /\ is_note_block(elems[i]))

\* ensure_note_roles: every note block gets role="doc-footnote"
ensure_note_roles(elems) ==
  [i \in 1..Len(elems) |->
     IF InSeq(i, find_note_blocks(elems))
     THEN [elems[i] EXCEPT !.role = <<"doc-footnote">>]
     ELSE elems[i]]

\* numeric_targets: digits ending a note block's id -> first such block
numeric_targets(elems) ==
  SeqFoldLeft(LAMBDA acc, i :
                LET m == TrailingDigits(IF elems[i].id = None THEN <<>> ELSE elems[i].id)
                IN IF m # <<>> /\ m \notin DOMAIN acc THEN Put(acc, m, i) ELSE acc,
              EmptyMap, find_note_blocks(elems))

\* symbol_targets_in_doc: symbol key -> first block whose text is the
\* symbol or starts with the symbol and a blank; an Author/Editor note
\* line counts as star
symbol_targets_in_doc(elems) ==
  LET blocks == SelectSeq([i \in 1..Len(elems) |-> i],
                  LAMBDA i : elems[i].tag \in {"p", "div", "li", "aside", "section"})
      hits(i) ==
        LET txt == elems[i].text
        IN IF txt = <<>> THEN <<>>
           ELSE SelectSeq([k \in 1..Len(SYMBOLS) |-> SYMBOLS[k][2]],
                   LAMBDA key : \E k \in 1..Len(SYMBOLS) :
                      /\ SYMBOLS[k][2] = key
                      /\ (txt = <<SYMBOLS[k][1]>> \/ StartsWith(txt, <<SYMBOLS[k][1], " ">>)))
                \o (IF txt[1] = "AUTHORNOTE" THEN << <<"star">> >> ELSE <<>>)
  IN SeqFoldLeft(LAMBDA acc, i :
                   SeqFoldLeft(LAMBDA a2, key :
                                 IF key \in DOMAIN a2 THEN a2 ELSE Put(a2, key, i),
                               acc, hits(i)),
                 EmptyMap, blocks)

\* ---------------------------------------------------------------------
\* Pass 1: forward links and reference ids of one document
\* ---------------------------------------------------------------------

\* set_noteref_aria: the aria-label of a noteref anchor, from the id of
\* its target
set_noteref_aria(target_id) ==
  LET m == TrailingDigits(target_id)
  IN IF m # <<>> THEN <<"See note ">> \o m
     ELSE IF Contains(target_id, <<"star">>) THEN <<"See author note">>
     ELSE IF Contains(target_id, <<"dagger">>) THEN <<"See dagger note">>
     ELSE IF Contains(target_id, <<"double", "-", "dagger">>)
          THEN <<"See double dagger note">>
     ELSE IF Contains(target_id, <<"caret">>) THEN <<"See author note">>
     ELSE <<"See note">>

\* set_noteref_semantics + set_noteref_aria on an <a> given as a record
\* [id, href, typed, classed, role, aria]
set_noteref_semantics(a, target_id) ==
  [a EXCEPT !.classed = TRUE, !.typed = TRUE,
            !.role = IF a.role = None THEN <<"doc-noteref">> ELSE a.role,
            !.aria = set_noteref_aria(target_id)]

NewAnchor == [id |-> None, href |-> NoHref, typed |-> FALSE, classed |-> FALSE,
              role |-> None, aria |-> None]

\* The <a> record of an element that is itself an <a>
SelfAnchor(el) == [id |-> el.id, href |-> el.href, typed |-> el.typed,
                   classed |-> el.classed, role |-> el.role, aria |-> el.aria]

WithSelfAnchor(el, a) == [el EXCEPT !.href = a.href, !.typed = a.typed,
                                    !.classed = a.classed, !.role = a.role,
                                    !.aria = a.aria]

\* wrap_with_link(el, target_id): el itself when it is an <a>, else its
\* first <a> descendant, else a new <a> that takes over el's content.
\* Returns [elems, changed].
wrap_with_link(elems, h, target_id) ==
  LET el == elems[h[1]]
      want == FragmentHref(target_id)
      isA == h[2] = 1 \/ el.tag = "a"
      hasA == isA \/ el.anchor # <<>>
      old == IF h[2] = 1 \/ (~isA /\ el.anchor # <<>>) THEN el.anchor[1]
             ELSE IF isA THEN SelfAnchor(el) ELSE NewAnchor
      new == set_noteref_semantics([old EXCEPT !.href = want], target_id)
      put == IF h[2] = 0 /\ el.tag = "a"
             THEN [elems EXCEPT ![h[1]] = WithSelfAnchor(el, new)]
             ELSE [elems EXCEPT ![h[1]].anchor = <<new>>]
  IN [elems |-> put, changed |-> (~hasA \/ old.href # want)]

\* An id assignment that sets the id it computes whatever id the element has
ensure_ids_for_overwriting(st, key, h) ==
  LET seq == Get(st.seqs, key, 0) + 1
      rid_existing == NodeId(st.elems, h)
      have == Get(st.ref_ids, key, <<>>)
      rid_first == RefIdFirst(key)
      rid_seq1 == IF EndsWith(rid_first, <<"-", "1">>) THEN rid_first
                  ELSE RefIdSeq(key, 1)
      rid_seqn == RefIdSeq(key, seq)
      rid == IF seq = 1 THEN rid_first ELSE rid_seqn
      l1 == IF InSeq(rid, have) THEN have ELSE Append(have, rid)
      l2 == IF seq = 1 /\ rid_seq1 # rid_first /\ ~InSeq(rid_seq1, l1)
            THEN Append(l1, rid_seq1) ELSE l1
  IN [elems |-> SetNodeId(st.elems, h, rid),
      seqs |-> Put(st.seqs, key, seq),
      ref_ids |-> Put(st.ref_ids, key, l2),
      assigned |-> rid]

\* ensure_ids_for(key, is_numeric, el): the per-key sequence number is
\* advanced, the element keeps an id it already has and otherwise gets
\* ref-<key> (first) or ref-<key>-<seq>, and the id is recorded under key.
\* st is [elems, seqs, ref_ids]; the result adds the field assigned.
ensure_ids_for(st, key, h) ==
  LET seq == Get(st.seqs, key, 0) + 1
      rid_existing == NodeId(st.elems, h)
      have == Get(st.ref_ids, key, <<>>)
      rid_first == IF Falsy(rid_existing) THEN RefIdFirst(key) ELSE rid_existing
      rid_seq1 == IF EndsWith(rid_first, <<"-", "1">>) THEN rid_first
                  ELSE RefIdSeq(key, 1)
      rid_seqn == IF Falsy(rid_existing) THEN RefIdSeq(key, seq) ELSE rid_existing
      rid == IF seq = 1 THEN rid_first ELSE rid_seqn
      l1 == IF InSeq(rid, have) THEN have ELSE Append(have, rid)
      l2 == IF seq = 1 /\ rid_seq1 # rid_first /\ ~InSeq(rid_seq1, l1)
            THEN Append(l1, rid_seq1) ELSE l1
  IN [elems |-> IF rid_existing = None THEN SetNodeId(st.elems, h, rid)
                ELSE st.elems,
      seqs |-> Put(st.seqs, key, seq),
      ref_ids |-> Put(st.ref_ids, key, l2),
      assigned |-> rid]

\* The symbol key chosen for a reference text: the first entry of SYMBOLS
\* whose character occurs in the raw text (None when there is none)
SymbolKeyOf(raw) ==
  LET hit == SelectSeq(SYMBOLS, LAMBDA e : InSeq(e[1], raw))
  IN IF hit = <<>> THEN None ELSE hit[1][2]

\* One iteration of the loop over find_noterefs(root).  st is
\* [elems, num_seq, sym_seq, numeric_ref_ids, symbol_ref_ids,
\*  changed_forward, first_ids_added]; the targets were computed before
\* the loop.  The branch of lines 463-494 is entered for a text that
\* MIXED_SYM_RE matches (a symbol followed by digits); the references of
\* the books below hold digits and commas, or one symbol, so the step is
\* that of lines 496-515.
LinkOneRef(st, h, numT, symT) ==
  LET raw == NodeText(st.elems, h)
      norm == [i \in 1..Len(raw) |-> SUPERSCRIPT_MAP(raw[i])]
      digits == SelectSeq(norm, IsDigit)
      key == SymbolKeyOf(raw)
      isNum == digits # <<>> /\ digits \in DOMAIN numT
      isSym == ~isNum /\ key # None /\ key \in DOMAIN symT
      k == IF isNum THEN digits ELSE key
      ti == IF isNum THEN numT[digits] ELSE symT[key]
      tgt == st.elems[ti]
      tid == IF ~Falsy(tgt.id) THEN tgt.id ELSE <<"note", "-">> \o k
      e1 == IF tgt.id = None THEN [st.elems EXCEPT ![ti].id = tid] ELSE st.elems
      w == wrap_with_link(e1, h, tid)
      r == ensure_ids_for([elems |-> w.elems,
                           seqs |-> IF isNum THEN st.num_seq ELSE st.sym_seq,
                           ref_ids |-> IF isNum THEN st.numeric_ref_ids
                                       ELSE st.symbol_ref_ids], k, h)
  IN IF ~(isNum \/ isSym) THEN st
     ELSE [elems |-> r.elems,
           num_seq |-> IF isNum THEN r.seqs ELSE st.num_seq,
           sym_seq |-> IF isNum THEN st.sym_seq ELSE r.seqs,
           numeric_ref_ids |-> IF isNum THEN r.ref_ids ELSE st.numeric_ref_ids,
           symbol_ref_ids |-> IF isNum THEN st.symbol_ref_ids ELSE r.ref_ids,
           changed_forward |-> st.changed_forward + (IF w.changed THEN 1 ELSE 0),
           first_ids_added |-> st.first_ids_added
                               + (IF r.assigned = RefIdFirst(k) THEN 1 ELSE 0)]

\* ensure_bidirectional_links_per_file(root)
ensure_bidirectional_links_per_file(elems) ==
  LET numT == numeric_targets(elems)
      symT == symbol_targets_in_doc(elems)
      refs == find_noterefs(elems)
      st0 == [elems |-> elems, num_seq |-> EmptyMap, sym_seq |-> EmptyMap,
              numeric_ref_ids |-> EmptyMap, symbol_ref_ids |-> EmptyMap,
              changed_forward |-> 0, first_ids_added |-> 0]
  IN SeqFoldLeft(LAMBDA st, h : LinkOneRef(st, h, numT, symT), st0, refs)

\* ---------------------------------------------------------------------
\* Pass 2: backlinks
\* ---------------------------------------------------------------------

\* os.path.dirname of a path given by its components
DirName(path) == SubSeq(path, 1, Len(path) - 1)

RECURSIVE CommonPrefixLen(_, _)
CommonPrefixLen(a, b) ==
  IF a = <<>> \/ b = <<>> \/ Head(a) # Head(b) THEN 0
  ELSE 1 + CommonPrefixLen(Tail(a), Tail(b))

\* os.path.relpath(to_path, start), '/'-separated: one ".." for every
\* component of start below the common prefix, then the rest of to_path;
\* "." when nothing is left
RelPath(to_path, start) ==
  LET c == CommonPrefixLen(to_path, start)
      ups == [i \in 1..(Len(start) - c) |-> ".."]
      rel == ups \o SubSeq(to_path, c + 1, Len(to_path))
  IN IF rel = <<>> THEN <<".">> ELSE rel

\* rel_href(from_path, to_path, target_id)
rel_href(from_path, to_path, target_id) ==
  LET rel == RelPath(to_path, DirName(from_path))
  IN IF rel = <<".">> THEN FragmentHref(target_id)
     ELSE [path |-> rel, frag |-> target_id]

\* A choice that always takes the first reference recorded
pick_nearest_first(ref_list, current_path) ==
  IF ref_list = <<>> THEN None ELSE ref_list[1]

\* pick_nearest(ref_list, current_path): the last reference of the same
\* file, else the first reference overall, else None.  A reference is
\* <<path, ref id>>.
pick_nearest(ref_list, current_path) ==
  LET same == SelectSeq(ref_list, LAMBDA r : r[1] = current_path)
  IN IF ref_list = <<>> THEN None
     ELSE IF same # <<>> THEN same[Len(same)]
     ELSE ref_list[1]

\* re.search(r'ref-(\d+)', ref_id): the digit run after the first "ref-"
\* that is followed by a digit (<<>> when there is no match)
RECURSIVE DigitRunFrom(_, _)
DigitRunFrom(s, i) ==
  IF i > Len(s) \/ ~IsDigit(s[i]) THEN <<>>
  ELSE <<s[i]>> \o DigitRunFrom(s, i + 1)

RefDigits(ref_id) ==
  LET hits == {i \in 1..(Len(ref_id) - 2) :
                 ref_id[i] = "ref" /\ ref_id[i + 1] = "-" /\ IsDigit(ref_id[i + 2])}
  IN IF hits = {} THEN <<>>
     ELSE DigitRunFrom(ref_id, (CHOOSE i \in hits : \A j \in hits : i <= j) + 2)

\* build_backlink_anchor(href, ref_id): the anchor is [href, label]
build_backlink_anchor(href, ref_id) ==
  LET m == RefDigits(ref_id)
      label == IF m # <<>> THEN <<"Back to reference ">> \o m
               ELSE IF Contains(ref_id, <<"star">>)
                    THEN <<"Back to author note reference">>
               ELSE IF Contains(ref_id, <<"dagger">>) /\ ~Contains(ref_id, <<"double">>)
                    THEN <<"Back to dagger note reference">>
               ELSE IF Contains(ref_id, <<"double", "-", "dagger">>)
                    THEN <<"Back to double dagger note reference">>
               ELSE IF Contains(ref_id, <<"caret">>)
                    THEN <<"Back to author note reference">>
               ELSE <<"Back to reference">>
  IN [href |-> href, label |-> label, class |-> "backlink",
      role |-> "doc-backlink"]

\* The keys tried for a note id without trailing digits, in the order of
\* the loop `for key in ('star','dagger','double-dagger','caret')`
BacklinkSymbolKeys == << <<"star">>, <<"dagger">>, <<"double", "-", "dagger">>,
                         <<"caret">> >>

\* The reference chosen for the note block (pth, nid): None or <<path, id>>
BacklinkCandidate(num_ref_locations, sym_ref_locations, pth, nid) ==
  LET m == TrailingDigits(nid)
      keys == SelectSeq(BacklinkSymbolKeys, LAMBDA key : Contains(nid, key))
  IN IF m # <<>> THEN pick_nearest(Get(num_ref_locations, m, <<>>), pth)
     ELSE IF keys = <<>> THEN None
     ELSE pick_nearest(Get(sym_ref_locations, keys[1], <<>>), pth)

\* root.xpath('//*[@id="nid"]')[0]: index of the first element carrying
\* the id (0 when there is none)
FirstWithId(elems, nid) ==
  LET hits == {i \in 1..Len(elems) : elems[i].id = nid}
  IN IF hits = {} THEN 0 ELSE CHOOSE i \in hits : \A j \in hits : i <= j

\* A pass 2 that appends without removing (lines 1551-1552 left out)
remove_backlinks_kept(anchors) == anchors

\* Lines 1550-1552: every <a class="backlink"> of the node is removed
remove_backlinks(anchors) ==
  SelectSeq(anchors, LAMBDA b : b.class # "backlink")

\* One iteration of the pass 2 loop for the entry (pth, nid) of
\* note_ids_by_file on the document doc (the one at pth).
\* Returns [doc, added]: added is 1 when a backlink was written.
BacklinkOneNote(doc, num_ref_locations, sym_ref_locations, nid) ==
  LET i == FirstWithId(doc.elems, nid)
      cand == BacklinkCandidate(num_ref_locations, sym_ref_locations, doc.path, nid)
      href == rel_href(doc.path, cand[1], cand[2])
  IN IF ~doc.parsable \/ i = 0 \/ cand = None THEN [doc |-> doc, added |-> 0]
     ELSE [doc |-> [doc EXCEPT !.elems[i].backlinks =
                                  Append(remove_backlinks(@),
                                         build_backlink_anchor(href, cand[2]))],
           added |-> 1]

\* ---------------------------------------------------------------------
\* One document through process_single_xhtml, and the pass 1 / pass 2
\* loops of process_single_epub
\* ---------------------------------------------------------------------

\* os.path.basename(pth).lower().startswith("nav")
NavNames == {"nav.xhtml"}

IsNav(path) == path[Len(path)] \in NavNames

\* process_single_xhtml: the parsed tree after the note linking edits,
\* and the maps returned for the backlink pass.  A document that cannot
\* be parsed, and a navigation document, return empty maps.  (The text
\* hygiene fixes of lines 1096-1115 do not touch ids, links or roles.)
process_single_xhtml(doc) ==
  LET r == ensure_bidirectional_links_per_file(doc.elems)
  IN IF ~doc.parsable
     THEN [doc |-> doc, num_map |-> EmptyMap, sym_map |-> EmptyMap,
           fw |-> 0, first_ids |-> 0, changed |-> FALSE]
     ELSE IF IsNav(doc.path)
     THEN [doc |-> doc, num_map |-> EmptyMap, sym_map |-> EmptyMap,
           fw |-> 0, first_ids |-> 0, changed |-> TRUE]
     ELSE [doc |-> [doc EXCEPT !.elems = ensure_note_roles(r.elems)],
           num_map |-> r.numeric_ref_ids, sym_map |-> r.symbol_ref_ids,
           fw |-> r.changed_forward, first_ids |-> r.first_ids_added,
           changed |-> TRUE]

\* Lines 1080-1093 of process_single_xhtml: the try statement covers
\* html.parse and getroot() only.  When getroot() returns None nothing is
\* raised inside it, and ensure_meta_charset(root) of line 1093 calls
\* root.xpath on None: an AttributeError leaves process_single_xhtml.
process_single_xhtml_raises(doc) == ~doc.parsable /\ doc.noroot

\* The pass 1 loop has no handler around process_single_xhtml
Pass1Raises(docs) ==
  \E d \in 1..Len(docs) : process_single_xhtml_raises(docs[d])

\* locations.setdefault(k, []).append((pth, rid)) for every id of a map
AddLocations(locations, map, pth) ==
  [k \in (DOMAIN locations) \cup (DOMAIN map) |->
     Get(locations, k, <<>>)
     \o [i \in 1..Len(Get(map, k, <<>>)) |-> <<pth, map[k][i]>>]]

\* The note ids collected from the file as it is on disk after
\* process_single_xhtml: entries <<path, note id>>
NoteIdsOf(doc) ==
  IF ~doc.parsable THEN <<>>
  ELSE LET blocks == SelectSeq(find_note_blocks(doc.elems),
                               LAMBDA i : ~Falsy(doc.elems[i].id))
       IN [j \in 1..Len(blocks) |-> <<doc.path, doc.elems[blocks[j]].id>>]

\* The accumulator threaded through the passes of one archive; writes
\* lists the paths safe_write_doc has been called for
NewBook(docs) ==
  [docs |-> docs, num_ref_locations |-> EmptyMap, sym_ref_locations |-> EmptyMap,
   note_ids_by_file |-> <<>>, forward_links_fixed |-> 0,
   first_ref_ids_added |-> 0, backlinks_added |-> 0, writes |-> <<>>]

\* One iteration of the pass 1 loop (lines 1476-1499) for spine entry d
\* The body of the pass 1 loop (lines 1478-1497) once process_single_xhtml
\* has returned r: the file is written when the document changed and the
\* run is no dry run (line 1141), and the note ids are read from the file
Pass1Record(bk, d, r, dry_run) ==
  LET write == r.changed /\ ~dry_run
      ondisk == IF write THEN r.doc ELSE bk.docs[d]
  IN [bk EXCEPT !.docs[d] = ondisk,
                !.writes = IF write THEN Append(@, bk.docs[d].path) ELSE @,
                !.num_ref_locations = AddLocations(@, r.num_map, bk.docs[d].path),
                !.sym_ref_locations = AddLocations(@, r.sym_map, bk.docs[d].path),
                !.note_ids_by_file = @ \o NoteIdsOf(ondisk),
                !.forward_links_fixed = @ + r.fw,
                !.first_ref_ids_added = @ + r.first_ids]

Pass1Doc(bk, d, dry_run) ==
  Pass1Record(bk, d, process_single_xhtml(bk.docs[d]), dry_run)

RECURSIVE Pass1From(_, _, _)
Pass1From(bk, d, dry_run) ==
  IF d > Len(bk.docs) THEN bk
  ELSE Pass1From(Pass1Doc(bk, d, dry_run), d + 1, dry_run)

Pass1(docs, dry_run) == Pass1From(NewBook(docs), 1, dry_run)

\* Index of the spine document stored at a path (0 when there is none)
DocAt(docs, pth) ==
  LET hits == {d \in 1..Len(docs) : docs[d].path = pth}
  IN IF hits = {} THEN 0 ELSE CHOOSE d \in hits : \A e \in hits : d <= e

\* One iteration of the pass 2 loop (lines 1511-1561) for entry n of
\* note_ids_by_file
Pass2Record(bk, pth, d, r) ==
  [bk EXCEPT !.docs[d] = r.doc, !.backlinks_added = @ + r.added,
             !.writes = IF r.added = 1 THEN Append(@, pth) ELSE @]

Pass2At(bk, n, d) ==
  Pass2Record(bk, bk.note_ids_by_file[n][1], d,
              BacklinkOneNote(bk.docs[d], bk.num_ref_locations,
                              bk.sym_ref_locations, bk.note_ids_by_file[n][2]))

Pass2Note(bk, n) == Pass2At(bk, n, DocAt(bk.docs, bk.note_ids_by_file[n][1]))

RECURSIVE Pass2From(_, _)
Pass2From(bk, n) ==
  IF n > Len(bk.note_ids_by_file) THEN bk
  ELSE Pass2From(Pass2Note(bk, n), n + 1)

\* A pass 2 that does not look at the dry run flag
Pass2_in_dry_run(bk, dry_run) == Pass2From(bk, 1)

\* Pass 2 is skipped in a dry run (line 1510)
Pass2(bk, dry_run) == IF dry_run THEN bk ELSE Pass2From(bk, 1)

\* ---------------------------------------------------------------------
\* Elements and documents used as inputs
\* ---------------------------------------------------------------------
Elem(tag, id, text) ==
  [tag |-> tag, id |-> id, typed |-> FALSE, classed |-> FALSE, role |-> None,
   text |-> text, longtext |-> FALSE, href |-> NoHref, aria |-> None,
   anchor |-> <<>>, backlinks |-> <<>>]

\* <sup>text</sup>
Sup(text) == Elem("sup", None, text)

\* <a class="noteref">text</a>
ClassedRef(text) == [Elem("a", None, text) EXCEPT !.classed = TRUE]

\* <span epub:type="noteref">text</span>
TypedRef(text) == [Elem("span", None, text) EXCEPT !.typed = TRUE]

\* <div id="...">Some note text</div>
NoteBlock(id) == [Elem("div", id, <<"Some note text">>) EXCEPT !.longtext = TRUE]

\* A spine document is a file that html.parse turns into a tree with a
\* root (parsable), a file for which html.parse raises, or a file for
\* which html.parse returns a tree whose getroot() is None (noroot: an
\* empty file, a file that holds a comment only)
Doc(path, elems) ==
  [path |-> path, parsable |-> TRUE, noroot |-> FALSE, elems |-> elems]

BrokenDoc(path) ==
  [path |-> path, parsable |-> FALSE, noroot |-> FALSE, elems |-> <<>>]

RootlessDoc(path) ==
  [path |-> path, parsable |-> FALSE, noroot |-> TRUE, elems |-> <<>>]

Chapter1Path == <<"OEBPS", "chapter1.xhtml">>
EndnotesPath == <<"OEBPS", "endnotes.xhtml">>
BlankPath == <<"OEBPS", "blank.xhtml">>

\* Scenario A: one chapter with <sup>1</sup> and a block fn1
ScenarioA == << Doc(Chapter1Path, << Sup(<<"1">>), NoteBlock(<<"fn", "1">>) >>) >>

\* Scenario C: scenario A followed by a file for which html.parse raises
ScenarioC == ScenarioA \o << BrokenDoc(BlankPath) >>

\* Scenario D: scenario A followed by an empty file
ScenarioD == ScenarioA \o << RootlessDoc(BlankPath) >>

\* Scenario B: chapter1 with <sup>2</sup>, endnotes.xhtml with a block fn2
ScenarioB == << Doc(Chapter1Path, << Sup(<<"2">>) >>),
                Doc(EndnotesPath, << NoteBlock(<<"fn", "2">>) >>) >>

\* ---------------------------------------------------------------------
\* Configuration, idempotency marker, package content
\* ---------------------------------------------------------------------
TOOL_TAG == "epubstandard v1.3.4"

OtherToolTag == "epubstandard v1.3.3"

BANNER_CONF == [enabled |-> TRUE, keep_first |-> TRUE, min_repeat_ratio |-> 60,
                top_chars |-> 150, bottom_chars |-> 150]

Config(inplace, force, dry_run) ==
  [inplace |-> inplace, force |-> force, dry_run |-> dry_run,
   banner |-> BANNER_CONF, audit |-> FALSE, blacklist_file |-> None]

BoolTok(b) == IF b THEN "true" ELSE "false"

\* json.dumps of the banner settings with sorted keys
BannerJson(b) ==
  <<"bottom_chars:">> \o NatToTokens(b.bottom_chars)
  \o <<"enabled:", BoolTok(b.enabled), "keep_first:", BoolTok(b.keep_first),
       "min_repeat_ratio:">> \o NatToTokens(b.min_repeat_ratio)
  \o <<"top_chars:">> \o NatToTokens(b.top_chars)

\* A fingerprint that also covers the force and dry_run fields
ConfigHash_with_run_flags(cfg) ==
  <<"audit:", BoolTok(cfg.audit), "banner:">> \o BannerJson(cfg.banner)
  \o <<"blacklist_file:",
       IF Falsy(cfg.blacklist_file) THEN "" ELSE cfg.blacklist_file[1],
       "dry_run:", BoolTok(cfg.dry_run), "force:", BoolTok(cfg.force),
       "inplace:", BoolTok(cfg.inplace)>>

\* Config.hash: the digest of the JSON of {inplace, banner, audit,
\* blacklist_file or ""} with sorted keys.  The digest is modelled by the
\* serialised payload itself (SHA-256 taken as collision free).
ConfigHash(cfg) ==
  <<"audit:", BoolTok(cfg.audit), "banner:">> \o BannerJson(cfg.banner)
  \o <<"blacklist_file:",
       IF Falsy(cfg.blacklist_file) THEN "" ELSE cfg.blacklist_file[1],
       "inplace:", BoolTok(cfg.inplace)>>

\* The content attribute f'{TOOL_TAG} ({cfg_hash})' of a marker
MarkerContent(tool, cfg_hash) == <<tool, " (">> \o cfg_hash \o <<")">>

\* A mark_idempotent that forgets lines 1394-1396: the previous markers stay
mark_idempotent_keeping(markers, cfg_hash) ==
  Append(markers, MarkerContent(TOOL_TAG, cfg_hash))

\* mark_idempotent on the list of marker contents of the metadata element:
\* previous markers are dropped, one new marker is appended
mark_idempotent(markers, cfg_hash) == <<MarkerContent(TOOL_TAG, cfg_hash)>>

\* An already_processed that looks for the hash alone
already_processed_any_tool(markers, cfg_hash) ==
  \E i \in 1..Len(markers) : Contains(markers[i], cfg_hash)

\* already_processed: some marker contains the hash and the tool tag
already_processed(markers, cfg_hash) ==
  \E i \in 1..Len(markers) :
     Contains(markers[i], cfg_hash) /\ Contains(markers[i], <<TOOL_TAG>>)

\* find_opf_path and the existence test of line 1440: the descriptor is
\* located unless container.xml is missing, names no rootfile, or names a
\* file that does not exist
OpfKinds == {"ok", "unparsable", "nocontainer", "norootfile", "missing"}

\* A find_opf_path without the existence test of line 1440
find_opf_path_unchecked(opf) == opf \notin {"nocontainer", "norootfile"}

find_opf_path(opf) == opf \notin {"nocontainer", "norootfile", "missing"}

NoCleanup == [tool |-> "", config_hash |-> <<>>, timestamp |-> 0, metrics |-> <<>>]

\* What an archive holds: zipok (it is a readable ZIP container), opf (the
\* state of its package descriptor), markers (contents of the marker metas
\* of the descriptor), docs (the spine documents), cleanup
\* (META-INF/cleanup.json)
Package(zipok, opf, markers, docs) ==
  [zipok |-> zipok, opf |-> opf, markers |-> markers, docs |-> docs,
   cleanup |-> NoCleanup]

EmptyPackage == Package(FALSE, "nocontainer", <<>>, <<>>)

\* A file of the file system: absent, partial (being written or left half
\* written) or complete
NoFile == [state |-> "absent", pkg |-> EmptyPackage]

File(pkg) == [state |-> "complete", pkg |-> pkg]

\* write_cleanup_manifest: tool, config hash, timestamp and the metrics
write_cleanup_manifest(cfg_hash, now, metrics) ==
  [tool |-> TOOL_TAG, config_hash |-> cfg_hash, timestamp |-> now,
   metrics |-> metrics]

\* The nine metric columns of a "done" row (lines 1652-1661), in order:
\* linebreak_files_changed, forward_links_fixed, backlinks_added,
\* first_ref_ids_added, soft_hyphens_removed, empties_collapsed,
\* blacklist_removed, banners_removed, illegitimate_paragraphs_merged
DoneMetrics(bk) ==
  <<0, bk.forward_links_fixed, bk.backlinks_added, bk.first_ref_ids_added,
    0, 0, 0, 0, 0>>

\* The zeros of the "fail" and "skip" rows (lines 1441-1442, 1449-1450)
ZeroMetrics == <<0, 0, 0, 0, 0, 0, 0, 0>>

\* A report row: file, status, note and the metric fields
Row(file, status, note, metrics) ==
  [file |-> file, status |-> status, note |-> note, metrics |-> metrics]

FieldCount(row) == 3 + Len(row.metrics)

\* The header written by run_batch (lines 1693-1698)
ReportHeader ==
  <<"file", "status", "note", "linebreak_files_changed", "forward_links_fixed",
    "backlinks_added", "first_ref_ids_added", "soft_hyphens_removed",
    "empties_collapsed", "blacklist_removed", "banners_removed",
    "illegitimate_paragraphs_merged">>

\* ---------------------------------------------------------------------
\* Banner detection and removal (remove_repeated_banners)
\*
\* A text is compared character by character: the k-th character of
\* token t is the pair <<t, k>>, so that slices, lengths and prefix tests
\* are those of the code.  Different tokens share no characters.
\* ---------------------------------------------------------------------
BannerText == "Harvard Law Review Vol. 12 No. 3"

OtherBannerText == "Yale Law Journal"

ProseText == "It was a long chapter ..."

\* len() of the tokens that make up the visible text
CharLen(tok) ==
  CASE tok = BannerText -> 32
    [] tok = OtherBannerText -> 16
    [] tok = ProseText -> 200
    [] tok = "Some note text" -> 14
    [] OTHER -> 1

CharsOf(tok) == [k \in 1..CharLen(tok) |-> <<tok, k>>]

\* The characters of a text given as tokens
TextChars(text) == SeqFoldLeft(LAMBDA cs, t : cs \o CharsOf(t), <<>>, text)

\* ''.join(body//text()), whitespace collapsed
BodyText(elems) ==
  SeqFoldLeft(LAMBDA cs, el : cs \o TextChars(el.text), <<>>, elems)

Min(a, b) == IF a <= b THEN a ELSE b

\* extract_banner_snippets: the first top_chars characters, and the last
\* bottom_chars characters when the body text is longer than that
extract_banner_snippets(elems, top_chars, bottom_chars) ==
  LET body == BodyText(elems)
  IN [top |-> SubSeq(body, 1, Min(top_chars, Len(body))),
      bot |-> IF Len(body) > bottom_chars
              THEN SubSeq(body, Len(body) - bottom_chars + 1, Len(body))
              ELSE <<>>]

\* The texts that match one of the signatures of looks_like_banner
SignatureTexts == {BannerText, OtherBannerText}

\* looks_like_banner: not empty, at most 120 characters, and one of the
\* boilerplate signatures occurs in it
looks_like_banner(snippet) ==
  /\ snippet # <<>>
  /\ Len(snippet) <= 120
  /\ \E tok \in SignatureTexts : Contains(snippet, CharsOf(tok))

\* t.startswith(txt[:min(len(txt), len(t))])
StartsWithHead(t, txt) ==
  LET m == Min(Len(txt), Len(t))
  IN SubSeq(t, 1, m) = SubSeq(txt, 1, m)

\* snippet_matches_heading (lines 629-634): the snippet starts with the
\* text of the first h1 of the document
snippet_matches_heading(elems, snip) ==
  LET h1 == SelectSeq([i \in 1..Len(elems) |-> i], LAMBDA i : elems[i].tag = "h1")
      htxt == TextChars(elems[h1[1]].text)
  IN /\ snip # <<>>
     /\ h1 # <<>>
     /\ htxt # <<>>
     /\ StartsWithHead(snip, htxt)

\* The snippets of every spine document (lines 604-612); a document that
\* cannot be parsed counts with two empty snippets
BannerSnippets(docs, conf) ==
  [d \in 1..Len(docs) |->
     IF docs[d].parsable
     THEN extract_banner_snippets(docs[d].elems, conf.top_chars, conf.bottom_chars)
     ELSE [top |-> <<>>, bot |-> <<>>]]

\* Counter(...)[t] of lines 616-617 for one snippet of a list
BannerCount(snips, t) ==
  Cardinality({d \in 1..Len(snips) : snips[d] = t /\ looks_like_banner(t)})

\* A removal set that forgets the ratio test
banner_remove_set_any_ratio(snips, n, min_repeat_ratio) ==
  {snips[d] : d \in {e \in 1..Len(snips) : BannerCount(snips, snips[e]) >= 2}}

\* Lines 619-620: the snippets with c >= 2 and c / n >= min_ratio (the
\* ratio is held in hundredths)
banner_remove_set(snips, n, min_repeat_ratio) ==
  {snips[d] : d \in {e \in 1..Len(snips) :
                       /\ BannerCount(snips, snips[e]) >= 2
                       /\ BannerCount(snips, snips[e]) * 100 >= min_repeat_ratio * n}}

\* A search that finds no element
FirstTextMatching_none(elems, t) == 0

\* Lines 644-649: the first element in document order whose text is not
\* empty and agrees with the head of the snippet (0 when there is none)
FirstTextMatching(elems, t) ==
  LET hits == {i \in 1..Len(elems) :
                 /\ elems[i].text # <<>>
                 /\ StartsWithHead(t, TextChars(elems[i].text))}
  IN IF hits = {} THEN 0 ELSE CHOOSE i \in hits : \A j \in hits : i <= j

\* Lines 659-662: the last element whose text is not empty (0 when none)
LastWithText(elems) ==
  LET hits == {i \in 1..Len(elems) : elems[i].text # <<>>}
  IN IF hits = {} THEN 0 ELSE CHOOSE i \in hits : \A j \in hits : i >= j

\* The state of the banner pass before its second loop: the documents,
\* the snippets and removal sets of lines 604-620, the loop variables of
\* lines 622-623; writes lists the paths safe_write_doc is called for
BannerScan(docs, conf, dry_run) ==
  LET snips == BannerSnippets(docs, conf)
      tops == [d \in 1..Len(docs) |-> snips[d].top]
      bottoms == [d \in 1..Len(docs) |-> snips[d].bot]
      on == conf.enabled /\ Len(docs) >= 2
  IN [docs |-> docs, conf |-> conf, dry_run |-> dry_run, on |-> on,
      tops |-> tops, bottoms |-> bottoms,
      top_remove |-> IF on THEN banner_remove_set(tops, Len(docs), conf.min_repeat_ratio)
                     ELSE {},
      bot_remove |-> IF on THEN banner_remove_set(bottoms, Len(docs), conf.min_repeat_ratio)
                     ELSE {},
      seen_top |-> {}, seen_bot |-> {}, removed |-> 0, kept |-> 0,
      writes |-> <<>>]

\* One iteration of the loop of lines 625-680 for spine entry d
BannerDoc(st, d) ==
  LET elems == st.docs[d].elems
      t == st.tops[d]
      b == st.bottoms[d]
      topHit == t \in st.top_remove /\ t # <<>> /\ ~snippet_matches_heading(elems, t)
      topKeep == topHit /\ st.conf.keep_first /\ t \notin st.seen_top
      ti == FirstTextMatching(elems, t)
      topBlank == topHit /\ ~topKeep /\ ti # 0
      e1 == IF topBlank /\ ~st.dry_run THEN [elems EXCEPT ![ti].text = <<>>] ELSE elems
      botHit == b \in st.bot_remove /\ b # <<>> /\ ~snippet_matches_heading(e1, b)
      botKeep == botHit /\ st.conf.keep_first /\ b \notin st.seen_bot
      bi == LastWithText(e1)
      botBlank == botHit /\ ~botKeep /\ bi # 0
      e2 == IF botBlank /\ ~st.dry_run THEN [e1 EXCEPT ![bi].text = <<>>] ELSE e1
  IN IF ~st.docs[d].parsable THEN st
     ELSE [st EXCEPT !.docs[d].elems = e2,
                     !.seen_top = IF topKeep THEN @ \cup {t} ELSE @,
                     !.seen_bot = IF botKeep THEN @ \cup {b} ELSE @,
                     !.kept = @ + (IF topKeep THEN 1 ELSE 0) + (IF botKeep THEN 1 ELSE 0),
                     !.removed = @ + (IF topBlank THEN 1 ELSE 0)
                                   + (IF botBlank THEN 1 ELSE 0),
                     !.writes = IF (topBlank \/ botBlank) /\ ~st.dry_run
                                THEN Append(@, st.docs[d].path) ELSE @]

RECURSIVE BannerFrom(_, _)
BannerFrom(st, d) ==
  IF d > Len(st.docs) THEN st ELSE BannerFrom(BannerDoc(st, d), d + 1)

\* remove_repeated_banners(spine_paths, conf, dry_run): the final state of
\* the pass; its fields removed and kept are the pair returned
remove_repeated_banners(docs, conf, dry_run) ==
  LET st == BannerScan(docs, conf, dry_run)
  IN IF st.on THEN BannerFrom(st, 1) ELSE st

\* ---------------------------------------------------------------------
\* Cover repair
\*
\* A package descriptor is a record: items (the manifest, in document
\* order: id, href, media type, properties), spine (the itemrefs: idref,
\* linear), meta (the contents of the meta name="cover" elements) and
\* guide (the reference type="cover" elements: href, title).  A path is
\* the sequence of its components below the folder of the descriptor.
\* ---------------------------------------------------------------------
NoId == ""

NoPath == <<>>

Item(id, href, type) == [id |-> id, href |-> href, type |-> type, props |-> {}]

\* Index of the first entry of a sequence that satisfies Test, 0 if none
FirstIndex(seq, Test(_)) ==
  LET hits == {i \in 1..Len(seq) : Test(seq[i])}
  IN IF hits = {} THEN 0 ELSE CHOOSE i \in hits : \A j \in hits : i <= j

ItemIds(opf) == {opf.items[i].id : i \in 1..Len(opf.items)}

\* _collect_manifest_items(opf_tree)[iid]
ItemOf(opf, iid) ==
  opf.items[FirstIndex(opf.items, LAMBDA it : it.id = iid)]

\* _guess_cover_from_meta: the content of the first meta name="cover"
guess_cover_from_meta(opf) ==
  IF opf.meta # <<>> THEN opf.meta[1] ELSE NoId

\* (^|/)(cover|cover-image)\.(jpe?g|png|gif|svg)$ on the lowered href
CoverImageNames == {"cover.jpg", "cover.png", "cover-image.jpg"}

\* href starts with "cover" and contains ".xhtml"; contains "titlepage"
\* and ".xhtml"
CoverPageNames == {"cover.xhtml"}

TitlePageNames == {"titlepage.xhtml"}

\* _find_cover_image_id
find_cover_image_id(opf) ==
  LET byProp == FirstIndex(opf.items, LAMBDA it : "cover-image" \in it.props)
      mid == guess_cover_from_meta(opf)
      byName == FirstIndex(opf.items,
                  LAMBDA it : it.href # NoPath /\ it.href[Len(it.href)] \in CoverImageNames)
      byType == FirstIndex(opf.items, LAMBDA it : it.type = "image")
  IN IF byProp # 0 THEN opf.items[byProp].id
     ELSE IF mid # NoId /\ mid \in ItemIds(opf) THEN mid
     ELSE IF byName # 0 THEN opf.items[byName].id
     ELSE IF byType # 0 THEN opf.items[byType].id
     ELSE NoId

\* _ensure_cover_properties
ensure_cover_properties(opf, cover_image_id) ==
  LET i == FirstIndex(opf.items, LAMBDA it : it.id = cover_image_id)
  IN IF cover_image_id = NoId \/ i = 0 THEN opf
     ELSE [opf EXCEPT !.items[i].props = @ \cup {"cover-image"}]

\* _find_cover_xhtml_candidate: a manifest item named cover*.xhtml, else
\* one named *titlepage*.xhtml, else the first document of the spine
find_cover_xhtml_candidate(opf) ==
  LET byCover == FirstIndex(opf.items,
                   LAMBDA it : it.href # NoPath /\ Head(it.href) \in CoverPageNames)
      byTitle == FirstIndex(opf.items,
                   LAMBDA it : \E k \in 1..Len(it.href) : it.href[k] \in TitlePageNames)
  IN IF byCover # 0 THEN opf.items[byCover].href
     ELSE IF byTitle # 0 THEN opf.items[byTitle].href
     ELSE IF opf.spine # <<>> /\ opf.spine[1].idref \in ItemIds(opf)
          THEN ItemOf(opf, opf.spine[1].idref).href
          ELSE NoPath

\* What a file holds: whether it has text to read, and the src of its
\* img elements
Page(text, imgs) == [exists |-> TRUE, text |-> text, imgs |-> imgs]

NoPage == [exists |-> FALSE, text |-> FALSE, imgs |-> <<>>]

\* _normalize_cover_xhtml: the file is rebuilt from scratch as a page
\* that shows the image and nothing else
normalize_cover_xhtml(files, cover_xhtml_path, cover_img_rel_href) ==
  [files EXCEPT ![cover_xhtml_path] = Page(FALSE, <<cover_img_rel_href>>)]

\* A manifest id not yet in use: the hint, else hint-2, hint-3, ...
UniqueId(opf, hint) ==
  IF hint \notin ItemIds(opf) THEN hint
  ELSE IF hint \o "-2" \notin ItemIds(opf) THEN hint \o "-2"
  ELSE hint \o "-3"

\* _ensure_manifest_item_for_xhtml and _ensure_manifest_item_for_image:
\* the item whose href is the path, appended when there is none; id is
\* the id returned
ensure_manifest_item(opf, path, hint, type) ==
  LET i == FirstIndex(opf.items, LAMBDA it : it.href = RelPath(path, <<>>))
      new_id == UniqueId(opf, hint)
  IN IF i # 0 THEN [opf |-> opf, id |-> opf.items[i].id]
     ELSE [opf |-> [opf EXCEPT !.items = Append(@, Item(new_id, RelPath(path, <<>>), type))],
           id |-> new_id]

\* os.path.normpath(os.path.join(folder, rel))
RECURSIVE JoinPath(_, _)
JoinPath(folder, rel) ==
  IF rel = <<>> THEN folder
  ELSE IF Head(rel) = "." THEN JoinPath(folder, Tail(rel))
  ELSE IF Head(rel) = ".." /\ folder # <<>> THEN JoinPath(DirName(folder), Tail(rel))
  ELSE JoinPath(Append(folder, Head(rel)), Tail(rel))

SvgNames == {"fig.svg"}

\* The images of one spine document that exist on disk, as paths
ImagesOf(files, images, path) ==
  SelectSeq([k \in 1..Len(files[path].imgs) |->
               JoinPath(DirName(path), files[path].imgs[k])],
            LAMBDA img : img \in images)

\* _find_first_spine_image: the first raster image of the spine documents
\* in reading order, else the first SVG image, else None
find_first_spine_image(opf, files, images) ==
  LET docs == SelectSeq(opf.spine,
                LAMBDA r : /\ r.idref # NoId
                           /\ r.idref \in ItemIds(opf)
                           /\ ItemOf(opf, r.idref).href # NoPath
                           /\ ItemOf(opf, r.idref).href \in DOMAIN files
                           /\ files[ItemOf(opf, r.idref).href].exists)
      all == SeqFoldLeft(LAMBDA found, r : found \o ImagesOf(files, images, ItemOf(opf, r.idref).href),
                         <<>>, docs)
      raster == SelectSeq(all, LAMBDA img : img[Len(img)] \notin SvgNames)
  IN IF raster # <<>> THEN raster[1]
     ELSE IF all # <<>> THEN all[1]
     ELSE NoPath

\* _ensure_spine_linear_no
ensure_spine_linear_no(opf, item_id) ==
  LET i == FirstIndex(opf.spine, LAMBDA r : r.idref = item_id)
  IN IF item_id = NoId THEN opf
     ELSE IF i # 0 THEN [opf EXCEPT !.spine[i].linear = "no"]
     ELSE [opf EXCEPT !.spine = Append(@, [idref |-> item_id, linear |-> "no"])]

\* _ensure_meta_name_cover
ensure_meta_name_cover(opf, cover_image_id) ==
  IF cover_image_id = NoId THEN opf
  ELSE IF opf.meta # <<>> THEN [opf EXCEPT !.meta[1] = cover_image_id]
  ELSE [opf EXCEPT !.meta = <<cover_image_id>>]

\* _ensure_guide_cover_reference
ensure_guide_cover_reference(opf, cover_xhtml_rel_href) ==
  IF cover_xhtml_rel_href = NoPath THEN opf
  ELSE IF opf.guide # <<>>
       THEN [opf EXCEPT !.guide[1] =
               [href |-> cover_xhtml_rel_href,
                title |-> IF @.title = "" THEN "Cover" ELSE @.title]]
       ELSE [opf EXCEPT !.guide = <<[href |-> cover_xhtml_rel_href, title |-> "Cover"]>>]

\* Lines 1567-1598 of a run that is no dry run: what is discovered, and
\* the package with the image item and the synthesized page added.  pk is
\* [opf, files, images].
CoverDiscovery(pk) ==
  LET id0 == find_cover_image_id(pk.opf)
      href0 == IF id0 # NoId THEN ItemOf(pk.opf, id0).href ELSE NoPath
      path0 == find_cover_xhtml_candidate(pk.opf)
      img == find_first_spine_image(pk.opf, pk.files, pk.images)
      ens == ensure_manifest_item(pk.opf, img, "cover-image-auto", "image")
      path1 == IF path0 = NoPath THEN <<"cover.xhtml">> ELSE path0
  IN IF id0 # NoId /\ path0 # NoPath /\ href0 # NoPath
     THEN [pk |-> pk, cover_img_id |-> id0, cover_img_href |-> href0,
           cover_xhtml_path |-> path0]
     ELSE IF img = NoPath
     THEN [pk |-> pk, cover_img_id |-> id0, cover_img_href |-> href0,
           cover_xhtml_path |-> path0]
     ELSE [pk |-> [pk EXCEPT
                     !.opf = ens.opf,
                     !.files = IF path0 = NoPath
                               THEN normalize_cover_xhtml(@, path1,
                                       RelPath(JoinPath(<<>>, RelPath(img, <<>>)),
                                               DirName(path1)))
                               ELSE @],
           cover_img_id |-> ens.id, cover_img_href |-> RelPath(img, <<>>),
           cover_xhtml_path |-> path1]

\* Lines 1603-1624: with a page, an image id and an image href, the page
\* is rewritten and the descriptor wired up
CoverWiring(found) ==
  LET pk == found.pk
      rel_from_cover == RelPath(JoinPath(<<>>, found.cover_img_href),
                                DirName(found.cover_xhtml_path))
      o1 == ensure_guide_cover_reference(pk.opf, RelPath(found.cover_xhtml_path, <<>>))
      ens == ensure_manifest_item(o1, found.cover_xhtml_path, "cover-xhtml", "xhtml")
      o2 == ensure_spine_linear_no(ens.opf, ens.id)
      o3 == ensure_meta_name_cover(o2, found.cover_img_id)
      o4 == ensure_cover_properties(o3, found.cover_img_id)
  IN IF found.cover_xhtml_path # NoPath /\ found.cover_img_id # NoId
        /\ found.cover_img_href # NoPath
     THEN [pk EXCEPT !.opf = o4,
                     !.files = normalize_cover_xhtml(@, found.cover_xhtml_path,
                                                     rel_from_cover)]
     ELSE pk

\* Nothing is discovered in a dry run (line 1568)
NothingFound(pk) ==
  [pk |-> pk, cover_img_id |-> NoId, cover_img_href |-> NoPath,
   cover_xhtml_path |-> NoPath]

\* ---------------------------------------------------------------------
\* State
\* ---------------------------------------------------------------------
VARIABLES
  cfg,         \* the Config of the current run
  run,         \* number of run_batch calls started so far
  clock,       \* int(time.time())
  pc,          \* position in run_batch / process_single_epub
  cur,         \* index in epubs of the archive being processed
  srcFile,     \* the archives under the source directory, by path
  outFile,     \* the files of the destination directory, by base name
  tmpOutFile,  \* the files epub_path + ".tmp"
  work,        \* the working directory made by mkdtemp
  opf_tree,    \* the parsed package descriptor (its marker metas)
  acc,         \* the accumulator of the passes over the spine
  rollup,      \* the report rows appended so far
  report,      \* the report file written by the last completed run
  exc,         \* an exception is propagating
  outcome,     \* how each archive's processing ended in the current run
  phases,      \* the phases the current archive has gone through
  start,       \* the file system as it was when the current run started
  ended,       \* how the last run ended
  prev,        \* what is known of the run before the current one
  ldocs,       \* note linking engine alone: the accumulator
  lpc,         \* note linking engine alone: the pass
  lidx,        \* note linking engine alone: next spine entry / note entry
  lrun,        \* note linking engine alone: number of the run over the book
  lorig,       \* note linking engine alone: the documents as given
  lfirst,      \* note linking engine alone: the book as the run before left it
  bn,          \* banner pass alone: the state of remove_repeated_banners
  bpc,         \* banner pass alone: the position in it
  bidx,        \* banner pass alone: next spine entry of the second loop
  borig,       \* banner pass alone: the spine documents as given
  cv,          \* cover repair alone: the descriptor, the pages, the images
  cfound,      \* cover repair alone: what discovery has found
  cpc,         \* cover repair alone: the position in it
  crun,        \* cover repair alone: number of the run over the package
  cfirst,      \* cover repair alone: the package as the first run left it
  cdry,        \* cover repair alone: the run is a dry run
  cexc,        \* cover repair alone: an exception was caught in discovery
  fx,          \* heal pipeline: archives, validation results, report rows
  fpc,         \* heal pipeline: the position in it
  mg,          \* paragraph merge alone: the body, the loop index, the count
  mgpc         \* paragraph merge alone: the position in it

lvars == <<ldocs, lpc, lidx, lrun, lorig, lfirst>>

bvars == <<bn, bpc, bidx, borig>>

cvars == <<cv, cfound, cpc, crun, cfirst, cdry, cexc>>

fvars == <<fx, fpc>>

mvars == <<mg, mgpc>>

\* The variables of the passes that are also modelled alone, and of the
\* heal pipeline
alone == <<lvars, bvars, cvars, fvars, mvars>>

vars == <<cfg, run, clock, pc, cur, srcFile, outFile, tmpOutFile, work,
          opf_tree, acc, rollup, report, exc, outcome, phases, start, ended, prev,
          ldocs, lpc, lidx, lrun, lorig, lfirst, bn, bpc, bidx, borig,
          cv, cfound, cpc, crun, cfirst, cdry, cexc, fx, fpc, mg, mgpc>>

\* The archives found under the source directory, sorted (lines 1675-1680)
epubs == <<"a.epub", "b.epub">>

Archives == {epubs[i] : i \in 1..Len(epubs)}

\* The archive being processed
CurA == epubs[cur]

NoWork == [exists |-> FALSE, pkg |-> EmptyPackage]

NoReport == [run |-> 0, header |-> <<>>, rows |-> <<>>]

\* Marker contents an input archive may carry: none, the marker of an
\* earlier in-place run, of an earlier copy run, and one of another
\* version of the tool
InitialMarkers ==
  { <<>>,
    <<MarkerContent(TOOL_TAG, ConfigHash(Config(TRUE, FALSE, FALSE)))>>,
    <<MarkerContent(TOOL_TAG, ConfigHash(Config(FALSE, FALSE, FALSE)))>>,
    <<MarkerContent(OtherToolTag, ConfigHash(Config(TRUE, FALSE, FALSE)))>> }

\* The first archive: a file that is no ZIP container, a container whose
\* descriptor is missing or broken, or the book of scenario A with any
\* of the markers.  The second archive: the book of scenario B, unmarked
\* or marked, or a container without container.xml.
FirstPackages ==
  {Package(FALSE, "ok", <<>>, <<>>)}
  \cup {Package(TRUE, k, <<>>, <<>>) : k \in OpfKinds \ {"ok"}}
  \cup {Package(TRUE, "ok", m, ScenarioA) : m \in InitialMarkers}
  \cup {Package(TRUE, "ok", <<>>, ScenarioC), Package(TRUE, "ok", <<>>, ScenarioD)}

SecondPackages ==
  { Package(TRUE, "ok", <<>>, ScenarioB),
    Package(TRUE, "ok",
            <<MarkerContent(TOOL_TAG, ConfigHash(Config(TRUE, FALSE, FALSE)))>>,
            ScenarioB),
    Package(TRUE, "nocontainer", <<>>, <<>>) }

InitialSources ==
  { [a \in Archives |-> IF a = epubs[1] THEN File(p) ELSE File(q)] :
      p \in FirstPackages, q \in SecondPackages }

NoRun == [cfg |-> Config(FALSE, FALSE, FALSE),
          outcome |-> [a \in Archives |-> "pending"],
          src |-> [a \in Archives |-> NoFile],
          out |-> [a \in Archives |-> NoFile],
          ended |-> "none"]

LinkIdle ==
  /\ ldocs = NewBook(<<>>)
  /\ lpc = "off"
  /\ lidx = 0
  /\ lrun = 0
  /\ lorig = <<>>
  /\ lfirst = NewBook(<<>>)

BannerIdle ==
  /\ bn = BannerScan(<<>>, BANNER_CONF, FALSE)
  /\ bpc = "off"
  /\ bidx = 0
  /\ borig = <<>>

NoPackage == [opf |-> [items |-> <<>>, spine |-> <<>>, meta |-> <<>>, guide |-> <<>>],
              files |-> <<>>, images |-> {}]

CoverIdle ==
  /\ cv = NoPackage
  /\ cfound = NothingFound(NoPackage)
  /\ cpc = "off"
  /\ crun = 0
  /\ cfirst = NoPackage
  /\ cdry = FALSE
  /\ cexc = FALSE

FixIdle ==
  /\ fx = [file |-> 0, epub |-> [a \in Archives |-> "absent"], healed |-> FALSE,
           be |-> 0, ae |-> 0, rows |-> <<>>]
  /\ fpc = "off"

MergeIdle ==
  /\ mg = [doc |-> <<>>, orig |-> <<>>, i |-> 0, merges |-> 0]
  /\ mgpc = "off"

Init ==
  /\ cfg = Config(FALSE, FALSE, FALSE)
  /\ run = 0
  /\ clock = 0
  /\ pc = "idle"
  /\ cur = 0
  /\ srcFile \in InitialSources
  /\ outFile = [a \in Archives |-> NoFile]
  /\ tmpOutFile = [a \in Archives |-> NoFile]
  /\ work = NoWork
  /\ opf_tree = <<>>
  /\ acc = NewBook(<<>>)
  /\ rollup = <<>>
  /\ report = NoReport
  /\ exc = FALSE
  /\ outcome = [a \in Archives |-> "pending"]
  /\ phases = <<>>
  /\ start = [src |-> srcFile, out |-> outFile, tmp |-> tmpOutFile]
  /\ ended = "none"
  /\ prev = NoRun
  /\ LinkIdle
  /\ BannerIdle
  /\ CoverIdle
  /\ FixIdle
  /\ MergeIdle

\* ---------------------------------------------------------------------
\* run_batch and process_single_epub
\* ---------------------------------------------------------------------

\* run_batch is called: main builds the Config, the rollup is empty
StartBatch ==
  /\ pc = "idle"
  /\ run < MaxRuns
  /\ \E inplace \in BOOLEAN, force \in BOOLEAN, dry_run \in BOOLEAN :
       cfg' = Config(inplace, force, dry_run)
  /\ clock' \in {clock, clock + 1}
  /\ run' = run + 1
  /\ cur' = 0
  /\ rollup' = <<>>
  /\ outcome' = [a \in Archives |-> "pending"]
  /\ phases' = <<>>
  /\ start' = [src |-> srcFile, out |-> outFile, tmp |-> tmpOutFile]
  /\ prev' = [cfg |-> cfg, outcome |-> outcome, src |-> srcFile,
              out |-> outFile, ended |-> ended]
  /\ ended' = "running"
  /\ pc' = "next"
  /\ UNCHANGED <<srcFile, outFile, tmpOutFile, work, opf_tree, acc, report, exc>>
  /\ UNCHANGED alone

\* The loop of run_batch takes the next archive; process_single_epub
\* makes its working directory (line 1434)
BeginArchive ==
  /\ pc = "next"
  /\ cur < Len(epubs)
  /\ cur' = cur + 1
  /\ work' = [exists |-> TRUE, pkg |-> EmptyPackage]
  /\ opf_tree' = <<>>
  /\ acc' = NewBook(<<>>)
  /\ phases' = <<>>
  /\ pc' = "unzip"
  /\ UNCHANGED <<cfg, run, clock, srcFile, outFile, tmpOutFile, rollup, report,
                 exc, outcome, start, ended, prev>>
  /\ UNCHANGED alone

\* An exception leaves the try block: control goes to the finally clause
Raise ==
  /\ exc' = TRUE
  /\ outcome' = [outcome EXCEPT ![CurA] = "raised"]
  /\ pc' = "finally"

\* unzip_epub (line 1437): a file that is no ZIP container raises
Unzip ==
  /\ pc = "unzip"
  /\ IF srcFile[CurA].state = "complete" /\ srcFile[CurA].pkg.zipok
     THEN /\ work' = [exists |-> TRUE, pkg |-> srcFile[CurA].pkg]
          /\ phases' = Append(phases, "Extracted")
          /\ pc' = "find_opf"
          /\ UNCHANGED <<exc, outcome>>
     ELSE /\ Raise
          /\ UNCHANGED <<work, phases>>
  /\ UNCHANGED <<cfg, run, clock, cur, srcFile, outFile, tmpOutFile, opf_tree,
                 acc, rollup, report, start, ended, prev>>
  /\ UNCHANGED alone

\* Lines 1439-1443: no descriptor located -> row "fail", "no opf"
LocateOpf ==
  /\ pc = "find_opf"
  /\ IF find_opf_path(work.pkg.opf)
     THEN /\ phases' = Append(phases, "DescriptorLocated")
          /\ pc' = "load_opf"
          /\ UNCHANGED <<rollup, outcome>>
     ELSE /\ rollup' = Append(rollup, Row(CurA, "fail", "no opf", ZeroMetrics))
          /\ outcome' = [outcome EXCEPT ![CurA] = "fail"]
          /\ pc' = "finally"
          /\ UNCHANGED phases
  /\ UNCHANGED <<cfg, run, clock, cur, srcFile, outFile, tmpOutFile, work,
                 opf_tree, acc, report, exc, start, ended, prev>>
  /\ UNCHANGED alone

\* Lines 1445-1451: load_xml (raises on a descriptor that is no XML), the
\* config hash, and the skip of an archive that is already processed
CheckMarker ==
  /\ pc = "load_opf"
  /\ IF work.pkg.opf = "unparsable"
     THEN /\ Raise
          /\ UNCHANGED <<opf_tree, rollup, phases>>
     ELSE /\ opf_tree' = work.pkg.markers
          /\ IF ~cfg.force /\ already_processed(work.pkg.markers, ConfigHash(cfg))
             THEN /\ rollup' = Append(rollup,
                         Row(CurA, "skip", "already processed (same config)",
                             ZeroMetrics))
                  /\ outcome' = [outcome EXCEPT ![CurA] = "skip"]
                  /\ phases' = Append(phases, "Skip")
                  /\ pc' = "finally"
             ELSE /\ pc' = "pass1"
                  /\ UNCHANGED <<rollup, outcome, phases>>
          /\ UNCHANGED exc
  /\ UNCHANGED <<cfg, run, clock, cur, srcFile, outFile, tmpOutFile, work, acc,
                 report, start, ended, prev>>
  /\ UNCHANGED alone

\* An order in which the backlink pass comes before banner removal
StepAfter_links_first(p) ==
  CASE p = "pass1"   -> "pass2"
    [] p = "pass2"   -> "banners"
    [] p = "banners" -> "cover"
    [] p = "cover"   -> "mark"
    [] p = "mark"    -> "repack"

\* The step that follows step p in the body of process_single_epub
\* (lines 1475-1650): pass 1, banner removal (1502-1507), the backlink
\* pass (1509-1561), cover repair (1562-1624), the marker (1631-1635),
\* repacking (1637-1650)
StepAfter(p) ==
  CASE p = "pass1"   -> "banners"
    [] p = "banners" -> "pass2"
    [] p = "pass2"   -> "cover"
    [] p = "cover"   -> "mark"
    [] p = "mark"    -> "repack"

\* Pass 1 (lines 1475-1499): every spine document goes through
\* process_single_xhtml; a document is written back unless the run is a
\* dry run.  An error other than a parse error propagates (an I/O error
\* while a document is read or written back).
Normalize ==
  /\ pc = "pass1"
  /\ \E fault \in BOOLEAN :
       IF fault \/ Pass1Raises(work.pkg.docs)
       THEN /\ Raise
            /\ UNCHANGED <<acc, work, phases>>
       ELSE /\ acc' = Pass1(work.pkg.docs, cfg.dry_run)
            /\ work' = [work EXCEPT !.pkg.docs = acc'.docs]
            /\ phases' = Append(phases, "Normalized")
            /\ pc' = StepAfter("pass1")
            /\ UNCHANGED <<exc, outcome>>
  /\ UNCHANGED <<cfg, run, clock, cur, srcFile, outFile, tmpOutFile, opf_tree,
                 rollup, report, start, ended, prev>>
  /\ UNCHANGED alone

\* Pass 1.5 (lines 1502-1507): remove_repeated_banners.  It catches its
\* own errors per document; the documents of InitialSources carry no boilerplate
\* snippet, so nothing is blanked and both counts are 0.
BannersRecord(bk, st) ==
  [bk EXCEPT !.docs = st.docs, !.writes = @ \o st.writes]

Banners ==
  /\ pc = "banners"
  /\ acc' = BannersRecord(acc, remove_repeated_banners(acc.docs, cfg.banner,
                                                       cfg.dry_run))
  /\ work' = [work EXCEPT !.pkg.docs = acc'.docs]
  /\ phases' = Append(phases, "BannersResolved")
  /\ pc' = StepAfter("banners")
  /\ UNCHANGED <<cfg, run, clock, cur, srcFile, outFile, tmpOutFile,
                 opf_tree, rollup, report, exc, outcome, start, ended, prev>>
  /\ UNCHANGED alone

\* Pass 2 (lines 1509-1561): backlinks, not in a dry run
Link ==
  /\ pc = "pass2"
  /\ acc' = Pass2(acc, cfg.dry_run)
  /\ work' = [work EXCEPT !.pkg.docs = acc'.docs]
  /\ phases' = Append(phases, "Linked")
  /\ pc' = StepAfter("pass2")
  /\ UNCHANGED <<exc, outcome>>
  /\ UNCHANGED <<cfg, run, clock, cur, srcFile, outFile, tmpOutFile, opf_tree,
                 rollup, report, start, ended, prev>>
  /\ UNCHANGED alone

\* Cover repair (lines 1562-1624), not in a dry run.  The packages of
\* InitialSources hold no image, so no cover is resolved and the wiring
\* of lines 1604-1624 is not entered.
Cover ==
  /\ pc = "cover"
  /\ phases' = Append(phases, "CoverResolved")
  /\ pc' = StepAfter("cover")
  /\ UNCHANGED <<cfg, run, clock, cur, srcFile, outFile, tmpOutFile, work,
                 opf_tree, acc, rollup, report, exc, outcome, start, ended, prev>>
  /\ UNCHANGED alone

\* Lines 1631-1635: mark_idempotent, save_xml and write_cleanup_manifest,
\* not in a dry run
Mark ==
  /\ pc = "mark"
  /\ IF cfg.dry_run
     THEN UNCHANGED <<opf_tree, work>>
     ELSE /\ opf_tree' = mark_idempotent(opf_tree, ConfigHash(cfg))
          /\ work' = [work EXCEPT
                !.pkg.markers = opf_tree',
                !.pkg.cleanup = write_cleanup_manifest(ConfigHash(cfg),
                                    clock, DoneMetrics(acc))]
  /\ phases' = Append(phases, "Marked")
  /\ pc' = StepAfter("mark")
  /\ UNCHANGED <<exc, outcome>>
  /\ UNCHANGED <<cfg, run, clock, cur, srcFile, outFile, tmpOutFile, acc,
                 rollup, report, start, ended, prev>>
  /\ UNCHANGED alone

\* A file that zipfile.ZipFile(path, 'w') has just created or truncated
PartialFile == [state |-> "partial", pkg |-> EmptyPackage]

\* Lines 1638-1650 up to the call of zip_epub, and line 85 of zip_epub:
\* in-place mode zips to epub_path + ".tmp", copy mode to out_dir/base;
\* a dry run zips nothing.
RepackOpen ==
  /\ pc = "repack"
  /\ IF cfg.dry_run
     THEN /\ pc' = "row"
          /\ UNCHANGED <<tmpOutFile, outFile>>
     ELSE /\ IF cfg.inplace
             THEN /\ tmpOutFile' = [tmpOutFile EXCEPT ![CurA] = PartialFile]
                  /\ UNCHANGED outFile
             ELSE /\ outFile' = [outFile EXCEPT ![CurA] = PartialFile]
                  /\ UNCHANGED tmpOutFile
          /\ pc' = "zip"
  /\ UNCHANGED <<exc, outcome>>
  /\ UNCHANGED <<cfg, run, clock, cur, srcFile, work, opf_tree, acc, rollup,
                 report, phases, start, ended, prev>>
  /\ UNCHANGED alone

\* The content of the container zip_epub makes of the working directory
zip_epub(pkg) == File([pkg EXCEPT !.zipok = TRUE])

\* zip_epub lines 86-96: the entries are written; an error midway (the
\* disk is full, a file of the working directory cannot be read) leaves
\* the file half written
RepackWrite ==
  /\ pc = "zip"
  /\ \E fault \in BOOLEAN :
       IF fault
       THEN /\ Raise
            /\ UNCHANGED <<tmpOutFile, outFile, phases>>
       ELSE /\ IF cfg.inplace
               THEN /\ tmpOutFile' = [tmpOutFile EXCEPT ![CurA] = zip_epub(work.pkg)]
                    /\ UNCHANGED <<outFile, phases>>
                    /\ pc' = "move"
               ELSE /\ outFile' = [outFile EXCEPT ![CurA] = zip_epub(work.pkg)]
                    /\ phases' = Append(phases, "Repacked")
                    /\ UNCHANGED tmpOutFile
                    /\ pc' = "row"
            /\ UNCHANGED <<exc, outcome>>
  /\ UNCHANGED <<cfg, run, clock, cur, srcFile, work, opf_tree, acc, rollup,
                 report, start, ended, prev>>
  /\ UNCHANGED alone

\* shutil.move(tmp_out, out_path) (line 1643)
Move ==
  /\ pc = "move"
  /\ srcFile' = [srcFile EXCEPT ![CurA] = tmpOutFile[CurA]]
  /\ tmpOutFile' = [tmpOutFile EXCEPT ![CurA] = NoFile]
  /\ phases' = Append(phases, "Repacked")
  /\ pc' = "row"
  /\ UNCHANGED <<cfg, run, clock, cur, outFile, work, opf_tree, acc, rollup,
                 report, exc, outcome, start, ended, prev>>
  /\ UNCHANGED alone

\* Lines 1652-1661: the "done" row
AppendRow ==
  /\ pc = "row"
  /\ rollup' = Append(rollup, Row(CurA, IF cfg.inplace THEN "ok-inplace" ELSE "ok",
                                  "done", DoneMetrics(acc)))
  /\ outcome' = [outcome EXCEPT ![CurA] = "done"]
  /\ pc' = "finally"
  /\ UNCHANGED <<cfg, run, clock, cur, srcFile, outFile, tmpOutFile, work,
                 opf_tree, acc, report, exc, phases, start, ended, prev>>
  /\ UNCHANGED alone

\* A finally clause that leaves the working directory where it is
rmtree_kept(w) == w

\* shutil.rmtree(tmp, ignore_errors=True) (line 1663): the directory and
\* all it holds are gone
rmtree(w) == NoWork

\* The finally clause (lines 1662-1663) removes the working directory.
\* process_single_epub has no except clause and run_batch calls it
\* outside any try (line 1687): an exception ends run_batch, and with it
\* the program, before the report is written.
Finally ==
  /\ pc = "finally"
  /\ work' = rmtree(work)
  /\ opf_tree' = <<>>
  /\ acc' = NewBook(<<>>)
  /\ IF exc
     THEN /\ ended' = "aborted"
          /\ exc' = FALSE
          /\ pc' = "idle"
     ELSE /\ pc' = "next"
          /\ UNCHANGED <<ended, exc>>
  /\ UNCHANGED <<cfg, run, clock, cur, srcFile, outFile, tmpOutFile,
                 rollup, report, outcome, phases, start, prev>>
  /\ UNCHANGED alone

\* Lines 1689-1700: after the last archive the report is written
WriteReport ==
  /\ pc = "next"
  /\ cur = Len(epubs)
  /\ report' = [run |-> run, header |-> ReportHeader, rows |-> rollup]
  /\ ended' = "finished"
  /\ pc' = "idle"
  /\ UNCHANGED <<cfg, run, clock, cur, srcFile, outFile, tmpOutFile, work,
                 opf_tree, acc, rollup, exc, outcome, phases, start, prev>>
  /\ UNCHANGED alone

Next ==
  \/ StartBatch
  \/ BeginArchive
  \/ Unzip
  \/ LocateOpf
  \/ CheckMarker
  \/ Normalize
  \/ Banners
  \/ Link
  \/ Cover
  \/ Mark
  \/ RepackOpen
  \/ RepackWrite
  \/ Move
  \/ AppendRow
  \/ Finally
  \/ WriteReport

Spec == Init /\ [][Next]_vars

\* ---------------------------------------------------------------------
\* The note linking engine alone: the pass 1 loop and the pass 2 loop of
\* process_single_epub (lines 1475-1499 and 1509-1561) of a run that is
\* not a dry run, one iteration per step, on a book of one or two spine
\* documents
\* ---------------------------------------------------------------------
ovars == <<cfg, run, clock, pc, cur, srcFile, outFile, tmpOutFile, work,
           opf_tree, acc, rollup, report, exc, outcome, phases, start, ended, prev>>

\* The elements a chapter is made of
ChapterElems ==
  { Sup(<<"1">>), Sup(<<"2">>), Sup(<<"1", ",", "2">>), ClassedRef(<<"1">>),
    TypedRef(<<"2">>), [Sup(<<"1">>) EXCEPT !.id = <<"cite", "-", "a">>],
    NoteBlock(<<"fn", "1">>), NoteBlock(<<"fn", "2">>) }

Chapters ==
  UNION { [1..n -> ChapterElems] : n \in 1..MaxElems }

\* What follows the chapter in the spine: nothing, or endnotes.xhtml
Endnotes ==
  { <<>>,
    <<Doc(EndnotesPath, << NoteBlock(<<"fn", "1">>) >>)>>,
    <<Doc(EndnotesPath, << NoteBlock(<<"fn", "2">>) >>)>>,
    <<Doc(EndnotesPath, << Sup(<<"1">>), NoteBlock(<<"fn", "1">>) >>)>> }

\* <p id="note-<key>" role="doc-footnote">(symbol) Some note text</p>
SymbolNote(ch, key) ==
  [Elem("p", <<"note", "-">> \o key, <<ch, " ", "Some note text">>)
     EXCEPT !.role = <<"doc-footnote">>, !.longtext = TRUE]

\* The elements of a chapter whose notes are marked by symbols
SymbolElems ==
  { Sup(<<"DAGGER">>), Sup(<<"DDAGGER">>), SymbolNote("DAGGER", <<"dagger">>),
    SymbolNote("DDAGGER", <<"double", "-", "dagger">>) }

SymbolChapters ==
  UNION { [1..n -> SymbolElems] : n \in 1..MaxElems }

LinkBooks ==
  { <<Doc(Chapter1Path, c)>> \o e : c \in Chapters \cup SymbolChapters,
                                   e \in Endnotes }

LinkInit ==
  /\ cfg = Config(FALSE, FALSE, FALSE)
  /\ run = 0
  /\ clock = 0
  /\ pc = "off"
  /\ cur = 0
  /\ srcFile = [a \in Archives |-> NoFile]
  /\ outFile = [a \in Archives |-> NoFile]
  /\ tmpOutFile = [a \in Archives |-> NoFile]
  /\ work = NoWork
  /\ opf_tree = <<>>
  /\ acc = NewBook(<<>>)
  /\ rollup = <<>>
  /\ report = NoReport
  /\ exc = FALSE
  /\ outcome = [a \in Archives |-> "pending"]
  /\ phases = <<>>
  /\ start = [src |-> srcFile, out |-> outFile, tmp |-> tmpOutFile]
  /\ ended = "none"
  /\ prev = NoRun
  /\ lorig \in LinkBooks
  /\ ldocs = NewBook(lorig)
  /\ lpc = "pass1"
  /\ lidx = 1
  /\ lrun = 1
  /\ lfirst = NewBook(<<>>)
  /\ BannerIdle
  /\ CoverIdle
  /\ FixIdle
  /\ MergeIdle

\* One iteration of the pass 1 loop
LinkDoc ==
  /\ lpc = "pass1"
  /\ lidx <= Len(ldocs.docs)
  /\ ldocs' = Pass1Doc(ldocs, lidx, FALSE)
  /\ IF lidx < Len(ldocs.docs)
     THEN lidx' = lidx + 1 /\ lpc' = "pass1"
     ELSE lidx' = 1 /\ lpc' = "pass2"
  /\ UNCHANGED <<lrun, lorig, lfirst>>
  /\ UNCHANGED <<ovars, bvars, cvars, fvars, mvars>>

\* One iteration of the pass 2 loop
LinkNote ==
  /\ lpc = "pass2"
  /\ lidx <= Len(ldocs.note_ids_by_file)
  /\ ldocs' = Pass2Note(ldocs, lidx)
  /\ lidx' = lidx + 1
  /\ UNCHANGED <<lpc, lrun, lorig, lfirst>>
  /\ UNCHANGED <<ovars, bvars, cvars, fvars, mvars>>

\* The pass 2 loop is over
LinkEnd ==
  /\ lpc = "pass2"
  /\ lidx > Len(ldocs.note_ids_by_file)
  /\ lpc' = "done"
  /\ UNCHANGED <<ldocs, lidx, lrun, lorig, lfirst>>
  /\ UNCHANGED <<ovars, bvars, cvars, fvars, mvars>>

\* The book the passes have produced is processed again (a forced run
\* over the output of the run before): the maps start empty
LinkAgain ==
  /\ lpc = "done"
  /\ lrun < MaxPasses
  /\ ldocs' = NewBook(ldocs.docs)
  /\ lpc' = "pass1"
  /\ lidx' = 1
  /\ lrun' = lrun + 1
  /\ lfirst' = ldocs
  /\ UNCHANGED lorig
  /\ UNCHANGED <<ovars, bvars, cvars, fvars, mvars>>

NextLink ==
  \/ LinkDoc
  \/ LinkNote
  \/ LinkEnd
  \/ LinkAgain

SpecLink == LinkInit /\ [][NextLink]_vars

\* ---------------------------------------------------------------------
\* The banner pass alone, over books whose pages carry running
\* heads, running feet, headings and prose
\* ---------------------------------------------------------------------
OrchestratorIdle ==
  /\ cfg = Config(FALSE, FALSE, FALSE)
  /\ run = 0
  /\ clock = 0
  /\ pc = "off"
  /\ cur = 0
  /\ srcFile = [a \in Archives |-> NoFile]
  /\ outFile = [a \in Archives |-> NoFile]
  /\ tmpOutFile = [a \in Archives |-> NoFile]
  /\ work = NoWork
  /\ opf_tree = <<>>
  /\ acc = NewBook(<<>>)
  /\ rollup = <<>>
  /\ report = NoReport
  /\ exc = FALSE
  /\ outcome = [a \in Archives |-> "pending"]
  /\ phases = <<>>
  /\ start = [src |-> srcFile, out |-> outFile, tmp |-> tmpOutFile]
  /\ ended = "none"
  /\ prev = NoRun

\* <p>text</p> and <h1>text</h1>
P(text) == Elem("p", None, text)

H1(text) == Elem("h1", None, text)

\* The bodies of the pages: the banner alone, as a paragraph or as the
\* heading; the banner before or after a long paragraph; a heading that
\* is the banner, then prose; prose alone; another banner alone; a
\* heading that is longer than the banner it starts with
PageBodies ==
  { << P(<<BannerText>>) >>,
    << H1(<<BannerText>>) >>,
    << H1(<<BannerText, OtherBannerText>>) >>,
    << P(<<BannerText>>), P(<<ProseText>>) >>,
    << P(<<ProseText>>), P(<<BannerText>>) >>,
    << H1(<<BannerText>>), P(<<ProseText>>) >>,
    << P(<<ProseText>>) >>,
    << P(<<OtherBannerText>>) >> }

SpineNames == <<"c1.xhtml", "c2.xhtml", "c3.xhtml", "c4.xhtml", "c5.xhtml">>

\* A page is a parsable document, or a file that lxml cannot parse
Pages ==
  { [parsable |-> TRUE, elems |-> b] : b \in PageBodies }
  \cup { [parsable |-> FALSE, elems |-> << P(<<BannerText>>) >>] }

BannerBooks ==
  UNION { { [d \in 1..n |-> [path |-> <<"OEBPS", SpineNames[d]>>,
                              parsable |-> f[d].parsable,
                              noroot |-> FALSE,
                              elems |-> f[d].elems]] : f \in [1..n -> Pages] }
          : n \in 1..MaxSpine }

\* The banner settings: the defaults, and the values the command line
\* options --no-banners, --banner-min-repeat, --banner-top-chars and
\* --banner-bottom-chars can give; keep_first is a field of the settings
BannerConfs ==
  { [enabled |-> e, keep_first |-> k, min_repeat_ratio |-> r,
     top_chars |-> c, bottom_chars |-> c] :
      e \in BOOLEAN, k \in BOOLEAN, r \in {60, 100}, c \in {150, 32} }

\* The pass has been called and has not run yet
BannerCalled(docs, conf, dry_run) ==
  [BannerScan(<<>>, conf, dry_run) EXCEPT !.docs = docs]

BannerInit ==
  /\ OrchestratorIdle
  /\ LinkIdle
  /\ CoverIdle
  /\ FixIdle
  /\ MergeIdle
  /\ borig \in BannerBooks
  /\ \E conf \in BannerConfs, dry_run \in BOOLEAN :
        bn = BannerCalled(borig, conf, dry_run)
  /\ bpc = "scan"
  /\ bidx = 0

\* Lines 593-623: the early return, the snippets, the removal sets
BannerBegin ==
  /\ bpc = "scan"
  /\ bn' = BannerScan(bn.docs, bn.conf, bn.dry_run)
  /\ bpc' = IF bn'.on THEN "docs" ELSE "done"
  /\ bidx' = 1
  /\ UNCHANGED borig
  /\ UNCHANGED <<ovars, lvars, cvars, fvars, mvars>>

\* One iteration of the loop of lines 625-680
BannerStep ==
  /\ bpc = "docs"
  /\ bidx <= Len(bn.docs)
  /\ bn' = BannerDoc(bn, bidx)
  /\ bidx' = bidx + 1
  /\ UNCHANGED <<bpc, borig>>
  /\ UNCHANGED <<ovars, lvars, cvars, fvars, mvars>>

\* Line 682: return removed, kept
BannerEnd ==
  /\ bpc = "docs"
  /\ bidx > Len(bn.docs)
  /\ bpc' = "done"
  /\ UNCHANGED <<bn, bidx, borig>>
  /\ UNCHANGED <<ovars, lvars, cvars, fvars, mvars>>

NextBanner ==
  \/ BannerBegin
  \/ BannerStep
  \/ BannerEnd

SpecBanner == BannerInit /\ [][NextBanner]_vars

\* ---------------------------------------------------------------------
\* Cover repair alone, run and run again over one package
\* ---------------------------------------------------------------------
Ch1 == Item("ch1", <<"ch1.xhtml">>, "xhtml")

Ch2 == Item("ch2", <<"ch2.xhtml">>, "xhtml")

ImgA == Item("imgA", <<"images", "p1.png">>, "image")

ImgB == Item("imgB", <<"images", "p2.png">>, "image")

\* The image files of the container; p3.png is in no manifest
ImageFiles == {<<"images", "p1.png">>, <<"images", "p2.png">>, <<"images", "p3.png">>}

\* A manifest item for a cover page or a title page, or none
PageItems ==
  { <<>>,
    <<Item("cov", <<"cover.xhtml">>, "xhtml")>>,
    <<Item("tp", <<"titlepage.xhtml">>, "xhtml")>> }

\* The image items of the manifest, one of them declared the cover image
\* or none
ImageItems ==
  { <<>>, <<ImgA>>, <<ImgA, ImgB>>,
    <<[ImgA EXCEPT !.props = {"cover-image"}]>>,
    <<[ImgA EXCEPT !.props = {"cover-image"}], ImgB>>,
    <<ImgA, [ImgB EXCEPT !.props = {"cover-image"}]>> }

\* The spine: the two chapters, the same after an itemref whose item is
\* not in the manifest, or no itemref at all
Spines ==
  { << [idref |-> "ch1", linear |-> ""], [idref |-> "ch2", linear |-> ""] >>,
    << [idref |-> "gone", linear |-> ""], [idref |-> "ch1", linear |-> ""],
       [idref |-> "ch2", linear |-> ""] >>,
    <<>> }

XhtmlPaths == {<<"ch1.xhtml">>, <<"ch2.xhtml">>, <<"cover.xhtml">>, <<"titlepage.xhtml">>}

CoverPackages ==
  { [opf |-> [items |-> pg \o im \o <<Ch1, Ch2>>, spine |-> sp, meta |-> mt, guide |-> gd],
     files |-> [q \in XhtmlPaths |->
                  IF q = <<"ch1.xhtml">> THEN Page(TRUE, i1)
                  ELSE IF q = <<"ch2.xhtml">> THEN Page(TRUE, i2)
                  ELSE IF pg # <<>> /\ pg[1].href = q THEN Page(TRUE, <<>>)
                  ELSE NoPage],
     images |-> ImageFiles] :
      pg \in PageItems, im \in ImageItems, sp \in Spines,
      mt \in {<<>>, <<"imgB">>, <<"nothere">>},
      gd \in {<<>>, <<[href |-> <<"old.xhtml">>, title |-> ""]>>},
      i1 \in {<<>>, << <<"images", "p2.png">> >>},
      i2 \in {<<>>, << <<"images", "p3.png">> >>} }

CoverInit ==
  /\ OrchestratorIdle
  /\ LinkIdle
  /\ BannerIdle
  /\ FixIdle
  /\ MergeIdle
  /\ cv \in CoverPackages
  /\ cfound = NothingFound(cv)
  /\ cpc = "find"
  /\ crun = 1
  /\ cfirst = NoPackage
  /\ cdry \in BOOLEAN
  /\ cexc = FALSE

\* The three pieces are there and the block of lines 1604-1624 is entered
WiringEntered(found) ==
  /\ found.cover_xhtml_path # NoPath
  /\ found.cover_img_id # NoId
  /\ found.cover_img_href # NoPath

\* Lines 1563-1601: discovery, not in a dry run.  An exception raised
\* inside the try (a helper fails before anything is assigned) is caught
\* by the except clause of lines 1599-1601, and control goes on to line
\* 1603 with nothing found.
CoverFind ==
  /\ cpc = "find"
  /\ \E fault \in BOOLEAN :
        /\ cfound' = IF cdry \/ fault THEN NothingFound(cv) ELSE CoverDiscovery(cv)
        /\ cexc' = (cexc \/ (fault /\ ~cdry))
  /\ cv' = cfound'.pk
  /\ cpc' = "wire"
  /\ UNCHANGED <<crun, cfirst, cdry>>
  /\ UNCHANGED <<ovars, lvars, bvars, fvars, mvars>>

\* Lines 1603-1624: the wiring.  The block stands after the try
\* statement: an exception raised in it (the cover page cannot be
\* written) leaves process_single_epub through the finally clause.
CoverWire ==
  /\ cpc = "wire"
  /\ \E fault \in BOOLEAN :
        IF fault /\ WiringEntered(cfound)
        THEN /\ cpc' = "raised"
             /\ UNCHANGED cv
        ELSE /\ cv' = CoverWiring(cfound)
             /\ cpc' = "done"
  /\ UNCHANGED <<cfound, crun, cfirst, cdry, cexc>>
  /\ UNCHANGED <<ovars, lvars, bvars, fvars, mvars>>

\* The package is processed again (a forced run over the output of the
\* run before)
CoverAgain ==
  /\ cpc = "done"
  /\ crun < MaxPasses
  /\ cfirst' = cv
  /\ cfound' = NothingFound(cv)
  /\ cpc' = "find"
  /\ crun' = crun + 1
  /\ UNCHANGED <<cv, cdry, cexc>>
  /\ UNCHANGED <<ovars, lvars, bvars, fvars, mvars>>

NextCover ==
  \/ CoverFind
  \/ CoverWire
  \/ CoverAgain

SpecCover == CoverInit /\ [][NextCover]_vars

\* ---------------------------------------------------------------------
\* The heal pipeline: epubstandard_all.main over the archives, with
\* epubfix.process_with_fix and utils.run_epubcheck
\* ---------------------------------------------------------------------

\* What a run of the validator can come to: no command found, a timeout,
\* another failure, or a run that reports a number of errors
CheckOutcomes ==
  {[kind |-> k, errors |-> 0] : k \in {"nocmd", "timeout", "failed"}}
  \cup {[kind |-> "ran", errors |-> n] : n \in 0..MaxErrors}

\* run_epubcheck: the error count, -1 when the validator did not run
run_epubcheck(o) == IF o.kind = "ran" THEN o.errors ELSE -1

\* epubstandard.process_epub, which epubfix.heal_epub calls and which
\* epubstandard.py does not define: the unpacked book is normalized
process_epub(book) == "healed"

\* The test of epubfix.py line 46
replaces(ae, be) == ae <= be

FixRow(status, used_healed) ==
  [filename |-> epubs[fx.file], status |-> status, be |-> fx.be, ae |-> fx.ae,
   used_healed |-> used_healed]

FixInit ==
  /\ OrchestratorIdle
  /\ LinkIdle
  /\ BannerIdle
  /\ CoverIdle
  /\ MergeIdle
  /\ fx = [file |-> 0, epub |-> [a \in Archives |-> "absent"], healed |-> FALSE,
           be |-> 0, ae |-> 0, rows |-> <<>>]
  /\ fpc = "next"

\* epubstandard_all.py lines 79-82: the next archive is copied to the
\* output folder
FixNext ==
  /\ fpc = "next"
  /\ fx.file < Len(epubs)
  /\ fx' = [fx EXCEPT !.file = @ + 1, !.epub[epubs[fx.file + 1]] = "copy",
                      !.be = 0, !.ae = 0]
  /\ fpc' = "upgrade"
  /\ UNCHANGED <<ovars, lvars, bvars, cvars, mvars>>

\* epubstandard_all.py lines 85-91: the upgrade, which fails or rewrites
\* the copy
FixUpgrade ==
  /\ fpc = "upgrade"
  /\ \E upgrade_ok \in BOOLEAN :
        IF upgrade_ok
        THEN /\ fx' = [fx EXCEPT !.epub[epubs[fx.file]] = "upgraded"]
             /\ fpc' = "before"
        ELSE /\ fx' = [fx EXCEPT !.rows = Append(@, FixRow("ERROR", FALSE))]
             /\ fpc' = "next"
  /\ UNCHANGED <<ovars, lvars, bvars, cvars, mvars>>

\* epubfix.py lines 34-36: the first validation
FixBefore ==
  /\ fpc = "before"
  /\ \E o \in CheckOutcomes :
        /\ fx' = [fx EXCEPT
                    !.be = run_epubcheck(o),
                    !.rows = IF run_epubcheck(o) = -1
                             THEN Append(@, [FixRow("ERROR", FALSE) EXCEPT !.be = -1])
                             ELSE @]
        /\ fpc' = IF run_epubcheck(o) = -1 THEN "next" ELSE "heal"
  /\ UNCHANGED <<ovars, lvars, bvars, cvars, mvars>>

\* epubfix.py lines 38-40 with heal_epub (lines 11-30): without a
\* descriptor healing is skipped; the call of process_epub raises
\* (the caller's except clause, epubstandard_all.py lines 100-102, writes
\* the row) or returns, and the healed copy is packed
FixHeal ==
  /\ fpc = "heal"
  /\ \E opf_found \in BOOLEAN, raises \in BOOLEAN :
        IF ~opf_found
        THEN /\ fx' = [fx EXCEPT !.ae = fx.be,
                                 !.rows = Append(@, [FixRow("OK", FALSE) EXCEPT !.ae = fx.be])]
             /\ fpc' = "next"
        ELSE IF raises
        THEN /\ fx' = [fx EXCEPT !.rows = Append(@, FixRow("FATAL ERROR", FALSE))]
             /\ fpc' = "next"
        ELSE /\ fx' = [fx EXCEPT !.healed = TRUE]
             /\ fpc' = "after"
  /\ UNCHANGED <<ovars, lvars, bvars, cvars, mvars>>

\* epubfix.py line 43: the validation of the healed copy
FixAfter ==
  /\ fpc = "after"
  /\ \E o \in CheckOutcomes : fx' = [fx EXCEPT !.ae = run_epubcheck(o)]
  /\ fpc' = "decide"
  /\ UNCHANGED <<ovars, lvars, bvars, cvars, mvars>>

\* epubfix.py lines 45-58: the healed copy replaces the archive or not,
\* and is deleted; epubstandard_all.py lines 97-98 write the row
FixDecide ==
  /\ fpc = "decide"
  /\ fx' = [fx EXCEPT
              !.epub[epubs[fx.file]] =
                 IF replaces(fx.ae, fx.be) THEN process_epub(@) ELSE @,
              !.healed = FALSE,
              !.rows = Append(@, FixRow("OK", replaces(fx.ae, fx.be)))]
  /\ fpc' = "next"
  /\ UNCHANGED <<ovars, lvars, bvars, cvars, mvars>>

NextFix ==
  \/ FixNext
  \/ FixUpgrade
  \/ FixBefore
  \/ FixHeal
  \/ FixAfter
  \/ FixDecide

SpecFix == FixInit /\ [][NextFix]_vars

\* ---------------------------------------------------------------------
\* The merge of illegitimate paragraph breaks alone
\*
\* A body is the sequence of its child nodes.  A node is a paragraph, an
\* element that is no paragraph (a <div>, whose tag does not end in "p";
\* a <sup>, whose tag does) or a comment.  The text of a node is kept by
\* what the heuristics look at: how it starts (a lower-case letter, a
\* capitalised continuation word such as "And", another capitalised
\* word, a digit) and how it ends (sentence-final punctuation, a joiner
\* word such as "of", anything else).
\* ---------------------------------------------------------------------
NoText == [start |-> "", end |-> ""]

Text(first, last) == [start |-> first, end |-> last]

Para(cls, text) == [kind |-> "p", cls |-> cls, text |-> text]

OtherElem(kind, text) == [kind |-> kind, cls |-> "", text |-> text]

CommentNode == [kind |-> "comment", cls |-> "", text |-> NoText]

\* paras = root.xpath('//p | //x:p'): the positions of the paragraphs
ParasOf(doc) == SelectSeq([k \in 1..Len(doc) |-> k], LAMBDA k : doc[k].kind = "p")

\* looks_like_heading_or_note: the class names a heading, a title, a
\* note or a caption
looks_like_heading_or_note(el) == el.cls \in {"heading", "footnote", "caption"}

\* not prev_soft_end.search(txt)
prev_is_soft(txt) == txt.end # "stop"

\* next_starts_cont.search(nxt): a continuation word, in any case
next_starts_cont(nxt) == nxt.start \in {"cont", "Cont"}

\* next_starts_lower is compiled with re.I, so [a-z] matches a letter of
\* either case; prev_ends_with_joiner looks at the end of txt
next_is_cont(txt, nxt) ==
  \/ nxt.start \in {"lower", "cont", "Cont", "Cap"}
  \/ next_starts_cont(nxt)
  \/ txt.end = "joiner"

next_starts_strong_cap(nxt) ==
  nxt.start \in {"Cont", "Cap"} /\ ~next_starts_cont(nxt)

\* sib.tag.endswith('p') or sib.tag.endswith('}p')
TagEndsWithP(node) == node.kind \in {"p", "sup"}

\* Lines 755-758: the walk from p.getnext() to the first sibling whose
\* tag ends in "p".  The tag of a comment is no string: .endswith raises.
\* The result is the position of the sibling, 0 for None, -1 for the
\* AttributeError.
RECURSIVE NextSibling(_, _)
NextSibling(doc, k) ==
  IF k > Len(doc) THEN 0
  ELSE IF doc[k].kind = "comment" THEN -1
  ELSE IF TagEndsWithP(doc[k]) THEN k
  ELSE NextSibling(doc, k + 1)

\* Lines 783-808: n is merged into p and removed from its parent
MergeInto(doc, pp, nn) ==
  LET joined == [doc EXCEPT ![pp].text = Text(doc[pp].text.start, doc[nn].text.end)]
  IN SubSeq(joined, 1, nn - 1) \o SubSeq(joined, nn + 1, Len(joined))

\* One iteration of the loop of lines 746-821, for the state
\* [doc, orig, i, merges]; raised tells whether the iteration raised
MergeIteration(st) ==
  LET paras == ParasOf(st.doc)
      pp == paras[st.i + 1]
      nn == NextSibling(st.doc, pp + 1)
      p == st.doc[pp]
      n == st.doc[nn]
      advance == [st |-> [st EXCEPT !.i = @ + 1], raised |-> FALSE]
  IN IF nn = -1 THEN [st |-> st, raised |-> TRUE]
     ELSE IF nn = 0 THEN advance
     ELSE IF looks_like_heading_or_note(p) \/ looks_like_heading_or_note(n)
     THEN advance
     ELSE IF p.text = NoText \/ n.text = NoText THEN advance
     ELSE IF prev_is_soft(p.text) /\ next_is_cont(p.text, n.text)
             /\ ~next_starts_strong_cap(n.text)
     THEN [st |-> [st EXCEPT !.doc = MergeInto(st.doc, pp, nn), !.merges = @ + 1],
           raised |-> FALSE]
     ELSE advance

\* The nodes the bodies are made of
MergeNodes ==
  { Para("", Text("lower", "soft")), Para("", Text("Cap", "stop")),
    Para("", Text("lower", "stop")), Para("", NoText),
    Para("footnote", Text("lower", "soft")),
    OtherElem("div", Text("lower", "soft")), OtherElem("sup", Text("lower", "soft")),
    CommentNode }

MergeBodies == UNION { [1..n -> MergeNodes] : n \in 1..MaxNodes }

MergeInit ==
  /\ OrchestratorIdle
  /\ LinkIdle
  /\ BannerIdle
  /\ CoverIdle
  /\ FixIdle
  /\ \E body \in MergeBodies :
        mg = [doc |-> body, orig |-> body, i |-> 0, merges |-> 0]
  /\ mgpc = "loop"

\* An iteration of `while i < len(paras) - 1`
MergeStep ==
  /\ mgpc = "loop"
  /\ mg.i < Len(ParasOf(mg.doc)) - 1
  /\ mg' = MergeIteration(mg).st
  /\ mgpc' = IF MergeIteration(mg).raised THEN "raised" ELSE "loop"
  /\ UNCHANGED <<ovars, lvars, bvars, cvars, fvars>>

\* The loop is left: return merges
MergeReturn ==
  /\ mgpc = "loop"
  /\ ~(mg.i < Len(ParasOf(mg.doc)) - 1)
  /\ mgpc' = "done"
  /\ UNCHANGED mg
  /\ UNCHANGED <<ovars, lvars, bvars, cvars, fvars>>

NextMerge ==
  \/ MergeStep
  \/ MergeReturn

SpecMerge == MergeInit /\ [][NextMerge]_vars

\* ---------------------------------------------------------------------
\* Properties of the batch runner (specification Spec)
\* ---------------------------------------------------------------------

\* The file a run leaves as the output of archive a
Output(a) == IF cfg.inplace THEN srcFile[a] ELSE outFile[a]

\* The package carries a marker with the tool identity and the
\* fingerprint of configuration c
CarriesMarker(pkg, c) ==
  \E i \in 1..Len(pkg.markers) :
     pkg.markers[i] = MarkerContent(TOOL_TAG, ConfigHash(c))

\* The archive being processed has passed the skip test
PastCheck ==
  pc \in {"pass1", "banners", "pass2", "cover", "mark", "repack", "zip",
          "move", "row"}

\* The rows of the rollup that are about archive a
RowsOf(a) == SelectSeq(rollup, LAMBDA r : r.file = a)

\* Nothing of archive a has changed on the file system since the run began
Untouched(a) ==
  /\ srcFile[a] = start.src[a]
  /\ outFile[a] = start.out[a]
  /\ tmpOutFile[a] = start.tmp[a]

\* C1: an archive that a run with configuration c (force unset, no dry
\* run) has processed with success is skipped by the next run with the
\* same configuration, in in-place mode and in copy mode alike, and the
\* output of the second run is the output of the first.
C1_TwiceIsSkip ==
  \A a \in Archives :
     (/\ prev.ended # "none"
      /\ prev.cfg = cfg
      /\ ~cfg.force /\ ~cfg.dry_run
      /\ prev.outcome[a] = "done"
      /\ outcome[a] \in {"done", "skip", "fail"})
     => /\ outcome[a] = "skip"
        /\ Output(a) = (IF cfg.inplace THEN prev.src[a] ELSE prev.out[a])

\* C2: an archive is skipped exactly when its descriptor carries the
\* marker of this tool with the fingerprint of the current configuration
\* and force is unset; a skipped archive has gone through no phase after
\* the location of the descriptor, no document, marker or file of it has
\* changed, and its row has status skip.
C2_SkipExactlyWhenMarked ==
  \A a \in Archives :
     LET carried == CarriesMarker(start.src[a].pkg, cfg)
     IN /\ outcome[a] = "skip" =>
             /\ carried /\ ~cfg.force
             /\ Untouched(a)
             /\ Len(RowsOf(a)) = 1 /\ RowsOf(a)[1].status = "skip"
        /\ (outcome[a] = "skip" /\ cur >= 1 /\ CurA = a /\ pc = "finally") =>
             /\ phases = <<"Extracted", "DescriptorLocated", "Skip">>
             /\ acc = NewBook(<<>>)
             /\ work.pkg = start.src[a].pkg
        /\ (outcome[a] = "done" \/ (cur >= 1 /\ CurA = a /\ PastCheck)) =>
             ~(carried /\ ~cfg.force)
        /\ (carried /\ ~cfg.force /\ outcome[a] # "pending") => outcome[a] = "skip"

\* An archive carrying the marker has just been skipped
C2_Witness ==
  /\ cur >= 1 /\ pc = "finally"
  /\ outcome[CurA] = "skip"
  /\ CarriesMarker(start.src[CurA].pkg, cfg)

\* C3: after a run that is no dry run has processed an archive with
\* success, the descriptor of the output holds exactly one marker, that of
\* this tool with the fingerprint of the run's configuration, whatever
\* marker the input carried; during a dry run no marker of any file
\* changes.
C3_ExactlyOneMarker ==
  /\ \A a \in Archives :
        (outcome[a] = "done" /\ ~cfg.dry_run) =>
           /\ Output(a).state = "complete"
           /\ Output(a).pkg.markers = <<MarkerContent(TOOL_TAG, ConfigHash(cfg))>>
  /\ cfg.dry_run =>
        /\ \A a \in Archives : Untouched(a)
        /\ (work.exists /\ pc # "unzip") => work.pkg.markers = start.src[CurA].pkg.markers

\* An archive that carried the marker of another configuration or of
\* another version of the tool has been processed with success
C3_Witness ==
  \E a \in Archives :
     /\ outcome[a] = "done" /\ ~cfg.dry_run
     /\ start.src[a].pkg.markers # <<>>
     /\ ~CarriesMarker(start.src[a].pkg, cfg)

\* No descriptor can be located in the package
NoOpf(pkg) == pkg.zipok /\ pkg.opf \in {"nocontainer", "norootfile", "missing"}

\* C4: an archive without a locatable descriptor gets one row, status
\* fail, note "no opf", every metric zero; none of its files changes, no
\* exception propagates, and the run goes on to the next archive.
C4_NoOpfFails ==
  \A a \in Archives :
     (NoOpf(start.src[a].pkg) /\ outcome[a] # "pending") =>
        /\ outcome[a] = "fail"
        /\ Len(RowsOf(a)) = 1
        /\ RowsOf(a)[1].status = "fail"
        /\ RowsOf(a)[1].note = "no opf"
        /\ \A i \in 1..Len(RowsOf(a)[1].metrics) : RowsOf(a)[1].metrics[i] = 0
        /\ Untouched(a)
        /\ (cur >= 1 /\ CurA = a) => ~exc
        /\ (pc = "idle" /\ a = epubs[1]) => outcome[epubs[2]] # "pending"

\* The first archive had no descriptor and the run has gone on to the
\* second and ended
C4_Witness ==
  /\ NoOpf(start.src[epubs[1]].pkg)
  /\ outcome[epubs[1]] = "fail"
  /\ outcome[epubs[2]] = "done"
  /\ pc = "idle"

\* C5: an exception raised while an archive is processed is caught for
\* that archive: its source is untouched and the run processes every
\* other archive and writes its report.
C5_ExceptionCaughtPerArchive ==
  \A a \in Archives :
     outcome[a] = "raised" =>
        /\ srcFile[a] = start.src[a]
        /\ pc = "idle" =>
             /\ ended = "finished"
             /\ report.run = run
             /\ \A b \in Archives : outcome[b] # "pending"

\* C6: no partially written archive ever exists at a source path or at a
\* final output path, in either mode.
C6_NoPartialOutput ==
  \A a \in Archives :
     /\ srcFile[a].state # "partial"
     /\ outFile[a].state # "partial"

\* C7: every archive that has been processed has exactly one row, every
\* row has a status of ok, ok-inplace, skip, fail, and every row has as
\* many fields as the header.
C7_RowsMatchHeader ==
  /\ \A a \in Archives :
        outcome[a] \in {"done", "skip", "fail"} => Len(RowsOf(a)) = 1
  /\ \A i \in 1..Len(rollup) :
        /\ rollup[i].status \in {"ok", "ok-inplace", "skip", "fail"}
        /\ FieldCount(rollup[i]) = Len(ReportHeader)

\* ---------------------------------------------------------------------
\* Properties of the note linking engine (specification SpecLink)
\* ---------------------------------------------------------------------

\* The spine documents that have gone through pass 1
LinkedDocs == IF lpc = "pass1" THEN 1..(lidx - 1) ELSE 1..Len(ldocs.docs)

\* The digits of the visible text of a node
KeyOf(elems, h) == SelectSeq(NodeText(elems, h), IsDigit)

\* The nodes of document d that were given an id, in document order
AssignedRefs(d) ==
  SelectSeq(AllNodes(lorig[d].elems),
            LAMBDA h : /\ NodeId(lorig[d].elems, h) = None
                       /\ NodeId(ldocs.docs[d].elems, h) # None)

\* C8: in a processed document the ids given to references are pairwise
\* different, and the references of one key, taken in document order,
\* hold ref-<key>, ref-<key>-2, ref-<key>-3, ...
C8_RefIdsInDocumentOrder ==
  \A d \in LinkedDocs :
     LET now == ldocs.docs[d].elems
         refs == AssignedRefs(d)
         ofKey(k) == SelectSeq(refs, LAMBDA h : KeyOf(now, h) = k)
     IN /\ \A i, j \in 1..Len(refs) :
             i # j => NodeId(now, refs[i]) # NodeId(now, refs[j])
        /\ \A n \in 1..Len(refs) :
             LET k == KeyOf(now, refs[n])
             IN \A j \in 1..Len(ofKey(k)) :
                   NodeId(now, ofKey(k)[j]) =
                     (IF j = 1 THEN RefIdFirst(k) ELSE RefIdSeq(k, j))

\* C9: a backlink whose reference is in the note block's own document has
\* the bare fragment of the reference id as its href.
C9_SameDocBacklinkIsBareFragment ==
  \A d \in 1..Len(ldocs.docs) :
     \A i \in 1..Len(ldocs.docs[d].elems) :
        LET el == ldocs.docs[d].elems[i]
            cand == BacklinkCandidate(ldocs.num_ref_locations,
                                      ldocs.sym_ref_locations,
                                      ldocs.docs[d].path, el.id)
        IN (el.backlinks # <<>> /\ cand # None /\ cand[1] = ldocs.docs[d].path)
           => el.backlinks[1].href = FragmentHref(cand[2])

\* The href of the link a reference element is or holds
RefLinkHref(el) ==
  IF el.tag = "a" THEN el.href
  ELSE IF el.anchor # <<>> THEN el.anchor[1].href
  ELSE NoHref

\* The places <<d, i>> of the references with digits k, and of the note
\* blocks whose id ends in k, in the documents as given
RefPlaces(k) ==
  UNION { { <<d, i>> : i \in { j \in 1..Len(lorig[d].elems) :
                                 /\ InSeq(<<j, 0>>, find_noterefs(lorig[d].elems))
                                 /\ KeyOf(lorig[d].elems, <<j, 0>>) = k } } :
          d \in 1..Len(lorig) }

NotePlaces(k) ==
  UNION { { <<d, i>> : i \in { j \in 1..Len(lorig[d].elems) :
                                 /\ InSeq(j, find_note_blocks(lorig[d].elems))
                                 /\ TrailingDigits(lorig[d].elems[j].id) = k } } :
          d \in 1..Len(lorig) }

\* C10: when the one reference of key k and the one note block whose id
\* ends in k are in different documents, then after both passes the
\* reference links to <note document>#<note id> and has id ref-<k>, and
\* the note block has a backlink to <reference document>#ref-<k>.
C10_CrossDocumentLink ==
  lpc = "done" =>
    \A k \in {<<"1">>, <<"2">>} :
       \A r \in RefPlaces(k) : \A n \in NotePlaces(k) :
          (RefPlaces(k) = {r} /\ NotePlaces(k) = {n} /\ r[1] # n[1]) =>
             LET ref == ldocs.docs[r[1]].elems[r[2]]
                 note == ldocs.docs[n[1]].elems[n[2]]
                 rpath == ldocs.docs[r[1]].path
                 npath == ldocs.docs[n[1]].path
             IN /\ RefLinkHref(ref) = [path |-> RelPath(npath, DirName(rpath)),
                                       frag |-> note.id]
                /\ ref.id = RefIdFirst(k)
                /\ Len(note.backlinks) = 1
                /\ note.backlinks[1].href = [path |-> RelPath(rpath, DirName(npath)),
                                             frag |-> RefIdFirst(k)]

\* The backlink anchors a note block holds
BacklinksOf(el) == SelectSeq(el.backlinks, LAMBDA b : b.class = "backlink")

TopOf(d) ==
  IF borig[d].parsable
  THEN extract_banner_snippets(borig[d].elems, bn.conf.top_chars,
                               bn.conf.bottom_chars).top
  ELSE <<>>

BottomOf(d) ==
  IF borig[d].parsable
  THEN extract_banner_snippets(borig[d].elems, bn.conf.top_chars,
                               bn.conf.bottom_chars).bot
  ELSE <<>>

\* c >= 2 and c / N >= the configured ratio, c being the number of spine
\* documents whose snippet on that side is exactly that of d
Repeated(side(_), d) ==
  LET c == Cardinality({e \in 1..Len(borig) : side(e) = side(d)})
  IN /\ c >= 2
     /\ c * 100 >= bn.conf.min_repeat_ratio * Len(borig)

\* Some text of spine entry d has been blanked
Blanked(d) ==
  \E i \in 1..Len(borig[d].elems) :
     bn.docs[d].elems[i].text # borig[d].elems[i].text

\* C12: a document has text blanked, or a removal is counted, only if
\* banner removal is enabled, the spine has at least two documents and
\* the top or bottom snippet of the document is that of c documents with
\* c >= 2 and c/N >= the minimum ratio; a book of one document is never
\* touched.
C12_BlankedOnlyIfRepeated ==
  /\ \A d \in 1..Len(borig) :
        Blanked(d) =>
           /\ bn.conf.enabled
           /\ Len(borig) >= 2
           /\ Repeated(TopOf, d) \/ Repeated(BottomOf, d)
  /\ bn.removed > 0 =>
        /\ bn.conf.enabled
        /\ Len(borig) >= 2
        /\ \E d \in 1..Len(borig) : Repeated(TopOf, d) \/ Repeated(BottomOf, d)
  /\ Len(borig) = 1 => bn.docs = borig /\ bn.removed = 0

C12_Witness ==
  /\ bpc = "done"
  /\ Len(borig) = 3
  /\ bn.conf.min_repeat_ratio = 60
  /\ \E d \in 1..Len(borig) :
        /\ Blanked(d)
        /\ Cardinality({e \in 1..Len(borig) : TopOf(e) = TopOf(d)}) = 2

\* The snippets of spine entry d as the pass has left it
TopNow(d) ==
  IF bn.docs[d].parsable
  THEN extract_banner_snippets(bn.docs[d].elems, bn.conf.top_chars,
                               bn.conf.bottom_chars).top
  ELSE <<>>

BottomNow(d) ==
  IF bn.docs[d].parsable
  THEN extract_banner_snippets(bn.docs[d].elems, bn.conf.top_chars,
                               bn.conf.bottom_chars).bot
  ELSE <<>>

\* The documents that carry snippet t on a side, and those of them whose
\* own heading the snippet does not match
Carriers(side(_), t) == {d \in 1..Len(borig) : side(d) = t}

Unguarded(side(_), t) ==
  {d \in Carriers(side, t) : ~snippet_matches_heading(borig[d].elems, t)}

\* Of the documents of set ds, those where snippet t is still in place
Survivors(now(_), ds, t) == {d \in ds : now(d) = t}

\* With keep-first the first document of ds keeps the snippet and the
\* others of ds lose it; without, all of ds lose it
KeptFirstOnly(now(_), ds, t) ==
  Survivors(now, ds, t) =
     IF bn.conf.keep_first
     THEN {d \in ds : \A e \in ds : d <= e}
     ELSE {}

C14_SecondRunChangesNothing ==
  (cpc = "done" /\ crun = 2 /\ ~cexc) => cv = cfirst

\* C15: a document is written only when its changed flag is set and the
\* run is no dry run; in a dry run nothing is written to the working
\* copy (documents, descriptor, marker, cleanup manifest), no archive is
\* written and the source archives stay as they were, in place or not.
C15_DryRunWritesNothing ==
  /\ \A k \in 1..Len(acc.writes) :
        /\ ~cfg.dry_run
        /\ \E d \in 1..Len(acc.docs) :
              acc.docs[d].path = acc.writes[k] /\ acc.docs[d].parsable
  /\ cfg.dry_run =>
        /\ (work.exists /\ phases # <<>>) => work.pkg = srcFile[CurA].pkg
        /\ opf_tree # <<>> => opf_tree = srcFile[CurA].pkg.markers
        /\ srcFile = start.src
        /\ outFile = start.out
        /\ tmpOutFile = start.tmp

\* A dry run in place has taken a book with a reference and its note
\* through every phase, and has counted the link it would make
C15_Witness ==
  /\ cfg.dry_run
  /\ cfg.inplace
  /\ outcome[epubs[1]] = "done"
  /\ phases # <<>>
  /\ phases[Len(phases)] = "Marked"
  /\ acc.forward_links_fixed >= 1
  /\ acc.writes = <<>>

\* C16: the healed version has replaced an archive only if its
\* validation ran and reported no more errors than the validation of the
\* original; an archive whose healed version has more errors, or could
\* not be validated, is as it was.
C16_HealedReplacesOnlyIfValidated ==
  \A k \in 1..Len(fx.rows) :
     /\ fx.rows[k].used_healed => (fx.rows[k].ae # -1 /\ fx.rows[k].ae <= fx.rows[k].be)
     /\ (fx.epub[fx.rows[k].filename] = "healed") <=> fx.rows[k].used_healed

IsPrefix(s, t) == Len(s) <= Len(t) /\ \A i \in 1..Len(s) : s[i] = t[i]

C18_WorkingDirectoryRemoved ==
  /\ pc \in {"next", "idle"} => work = NoWork
  /\ pc = "unzip" => work = [exists |-> TRUE, pkg |-> EmptyPackage]
  /\ work.exists => (cur >= 1 /\ pc \notin {"next", "idle"})

\* A batch in which the first archive was done and the second raised an
\* exception after its working directory was filled has ended, and no
\* working directory is left
C18_Witness ==
  /\ pc = "idle"
  /\ ended = "aborted"
  /\ cur = 2
  /\ outcome[epubs[1]] = "done"
  /\ outcome[epubs[2]] = "raised"
  /\ Len(phases) >= 3
  /\ ~work.exists

\* The entries of note_ids_by_file the backlink pass of this run has
\* gone through
NotesDone ==
  IF lpc = "pass2" THEN 1..(lidx - 1)
  ELSE IF lpc = "done" THEN 1..Len(ldocs.note_ids_by_file)
  ELSE {}

\* The references recorded in pass 1 for the key of a note id: its
\* trailing digits, else the first symbol name it contains
RecordedFor(nid) ==
  LET syms == SelectSeq(BacklinkSymbolKeys, LAMBDA key : Contains(nid, key))
  IN IF TrailingDigits(nid) # <<>>
     THEN Get(ldocs.num_ref_locations, TrailingDigits(nid), <<>>)
     ELSE IF syms = <<>> THEN <<>>
     ELSE Get(ldocs.sym_ref_locations, syms[1], <<>>)

\* The positions in a list of references of those that lie in a document
SameDoc(refs, pth) == {j \in 1..Len(refs) : refs[j][1] = pth}

\* The reference the rule selects: the last one of the document itself,
\* else the first one recorded
Selected(refs, pth) ==
  IF SameDoc(refs, pth) # {}
  THEN refs[CHOOSE j \in SameDoc(refs, pth) : \A k \in SameDoc(refs, pth) : k <= j]
  ELSE refs[1]

\* The block entry n of note_ids_by_file stands for: the first element of
\* its document that carries the id
BlockOf(n) ==
  LET pth == ldocs.note_ids_by_file[n][1]
      doc == ldocs.docs[DocAt(ldocs.docs, pth)]
  IN doc.elems[FirstWithId(doc.elems, ldocs.note_ids_by_file[n][2])]

\* The entries gone through for whose key a reference is recorded
NotesWithReference ==
  SelectSeq([n \in 1..Len(ldocs.note_ids_by_file) |-> n],
            LAMBDA n : n \in NotesDone
                       /\ RecordedFor(ldocs.note_ids_by_file[n][2]) # <<>>)

DigitRuns(t) ==
  { SubSeq(t, i, j) : <<i, j>> \in
      { p \in (1..Len(t)) \X (1..Len(t)) :
          /\ p[1] <= p[2]
          /\ \A x \in p[1]..p[2] : IsDigit(t[x])
          /\ (p[1] = 1 \/ ~IsDigit(t[p[1] - 1]))
          /\ (p[2] = Len(t) \/ ~IsDigit(t[p[2] + 1])) } }

\* The note blocks of document d as given whose id ends in the digits k
BlocksEndingIn(d, k) ==
  { i \in 1..Len(lorig[d].elems) :
      /\ InSeq(i, find_note_blocks(lorig[d].elems))
      /\ ~Falsy(lorig[d].elems[i].id)
      /\ TrailingDigits(lorig[d].elems[i].id) = k }

\* The visible text of a reference with superscript digits mapped
NormText(d, h) ==
  [x \in 1..Len(NodeText(lorig[d].elems, h)) |->
     SUPERSCRIPT_MAP(NodeText(lorig[d].elems, h)[x])]

\* The digit runs of a reference for which its document has a note block
MatchedRuns(d, h) ==
  { k \in DigitRuns(NormText(d, h)) : BlocksEndingIn(d, k) # {} }

\* The reference has a symbol for which its document has a symbol target
SymbolMatched(d, h) ==
  /\ SymbolKeyOf(NodeText(lorig[d].elems, h)) # None
  /\ SymbolKeyOf(NodeText(lorig[d].elems, h))
        \in DOMAIN symbol_targets_in_doc(lorig[d].elems)

\* C20: in a document that has gone through pass 1, a reference whose
\* text contains a digit run k for which the document holds a note block
\* with an id ending in k links to '#<id of such a block>' and has an id;
\* a reference without a numeric or symbol target in its document has no
\* link and no id.
C20_ForwardLinkForDigitRun ==
  lrun = 1 =>
    \A d \in LinkedDocs :
       \A n \in 1..Len(find_noterefs(lorig[d].elems)) :
          LET h == find_noterefs(lorig[d].elems)[n]
              el == ldocs.docs[d].elems[h[1]]
          IN IF MatchedRuns(d, h) # {}
             THEN /\ \E k \in MatchedRuns(d, h) : \E i \in BlocksEndingIn(d, k) :
                        RefLinkHref(el) = FragmentHref(lorig[d].elems[i].id)
                  /\ ~Falsy(el.id)
             ELSE ~SymbolMatched(d, h) =>
                     /\ RefLinkHref(el) = RefLinkHref(lorig[d].elems[h[1]])
                     /\ el.id = lorig[d].elems[h[1]].id

\* Every id the nodes of a book hold stays what it is in the next state
IdsKept(before, after) ==
  \A d \in 1..Len(before) :
     \A n \in 1..Len(AllNodes(before[d].elems)) :
        LET h == AllNodes(before[d].elems)[n]
        IN NodeId(before[d].elems, h) # None =>
              /\ h[2] = 1 => after[d].elems[h[1]].anchor # <<>>
              /\ NodeId(after[d].elems, h) = NodeId(before[d].elems, h)

\* C21: no step of pass 1 or pass 2, in the first run or in a later one,
\* changes or removes an id that an element or the link it holds already
\* carries.
C21_ExistingIdsKept ==
  [][IdsKept(ldocs.docs, ldocs'.docs)]_vars

\* A reference that came with an id of its own has been linked in two
\* runs and still carries that id
C21_Witness ==
  /\ lrun = 2
  /\ lpc = "done"
  /\ \E d \in 1..Len(lorig) : \E i \in 1..Len(lorig[d].elems) :
        /\ lorig[d].elems[i].id = <<"cite", "-", "a">>
        /\ ldocs.docs[d].elems[i].anchor # <<>>
        /\ ldocs.docs[d].elems[i].anchor[1].href # NoHref
        /\ ldocs.docs[d].elems[i].id = <<"cite", "-", "a">>

\* C22: no exception leaves cover repair, whether it is raised during
\* discovery or during normalization and wiring: the archive goes on to
\* marking.
C22_CoverExceptionCaught ==
  cpc # "raised"

\* ---------------------------------------------------------------------
\* C23: a spine document that cannot be parsed is skipped: pass 1 does not
\* raise for it and goes on with the remaining documents, the document
\* contributes no reference id and no note block to the linking and
\* backlink passes, and it is not written.
\* ---------------------------------------------------------------------
HasUnparsable(docs) == \E d \in 1..Len(docs) : ~docs[d].parsable

UnparsableSkipped(bk) ==
  \A d \in 1..Len(bk.docs) :
    ~bk.docs[d].parsable =>
      /\ \A k \in DOMAIN bk.num_ref_locations :
           \A i \in 1..Len(bk.num_ref_locations[k]) :
             bk.num_ref_locations[k][i][1] # bk.docs[d].path
      /\ \A k \in DOMAIN bk.sym_ref_locations :
           \A i \in 1..Len(bk.sym_ref_locations[k]) :
             bk.sym_ref_locations[k][i][1] # bk.docs[d].path
      /\ \A n \in 1..Len(bk.note_ids_by_file) :
           bk.note_ids_by_file[n][1] # bk.docs[d].path
      /\ \A w \in 1..Len(bk.writes) : bk.writes[w] # bk.docs[d].path

C23_UnparsableDocumentSkipped ==
  /\ (pc = "pass1" /\ HasUnparsable(work.pkg.docs)) => ~Pass1Raises(work.pkg.docs)
  /\ UnparsableSkipped(acc)

\* A document for which html.parse raised was skipped and the archive
\* went on to the banner pass with its other document written
C23_ParseErrorSkipped ==
  /\ pc = "banners"
  /\ HasUnparsable(acc.docs)
  /\ Len(acc.writes) > 0

\* ---------------------------------------------------------------------
\* C24: the configuration fingerprint is a function of exactly the
\* in-place flag, the banner settings, the audit flag and the blacklist
\* file: the configuration of the run has the same fingerprint as any
\* configuration that agrees with it on these four, whatever the force
\* and dry-run flags are, and a different one otherwise; the marker an
\* in-place run wrote is matched by a later run that differs from it in
\* force or dry-run only.
\* ---------------------------------------------------------------------
BlacklistFiles == {None, <<>>, <<"blacklist.txt">>}

\* The default banner settings, --no-banners, --banner-top-chars 32
FingerprintBanners ==
  { BANNER_CONF, [BANNER_CONF EXCEPT !.enabled = FALSE],
    [BANNER_CONF EXCEPT !.top_chars = 32] }

ConfigSpace ==
  [inplace : BOOLEAN, force : BOOLEAN, dry_run : BOOLEAN,
   banner : FingerprintBanners, audit : BOOLEAN, blacklist_file : BlacklistFiles]

Salient(c) ==
  [inplace |-> c.inplace, banner |-> c.banner, audit |-> c.audit,
   blacklist_file |-> IF Falsy(c.blacklist_file) THEN <<>> ELSE c.blacklist_file]

\* The archive at hand was repacked in place by the run before this one
MarkedByPreviousRun ==
  /\ prev.ended # "none"
  /\ prev.outcome[CurA] = "done"
  /\ prev.cfg.inplace /\ ~prev.cfg.dry_run

C24_FingerprintOfSalientFields ==
  pc = "load_opf" =>
    /\ \A c \in ConfigSpace :
         IF Salient(c) = Salient(cfg)
         THEN /\ ConfigHash(c) = ConfigHash(cfg)
              /\ already_processed(<<MarkerContent(TOOL_TAG, ConfigHash(c))>>,
                                   ConfigHash(cfg))
         ELSE ConfigHash(c) # ConfigHash(cfg)
    /\ (MarkedByPreviousRun /\ Salient(prev.cfg) = Salient(cfg)
        /\ work.pkg.opf = "ok")
         => already_processed(work.pkg.markers, ConfigHash(cfg))

\* A second run that differs from the first in force or dry-run only
\* finds the marker the first run wrote
C24_Witness ==
  /\ pc = "load_opf"
  /\ MarkedByPreviousRun
  /\ Salient(prev.cfg) = Salient(cfg)
  /\ prev.cfg # cfg
  /\ already_processed(work.pkg.markers, ConfigHash(cfg))

\* ---------------------------------------------------------------------
\* C25: a qualifying snippet is never blanked in a document whose own
\* heading it matches: once the document has been handled the snippet is
\* still in place on its side, and such a document adds nothing to the
\* counts of removed and kept snippets.
\* ---------------------------------------------------------------------
GuardedTop(d) ==
  /\ borig[d].parsable
  /\ TopOf(d) \in bn.top_remove
  /\ snippet_matches_heading(borig[d].elems, TopOf(d))

GuardedBottom(d) ==
  /\ borig[d].parsable
  /\ BottomOf(d) \in bn.bot_remove
  /\ snippet_matches_heading(borig[d].elems, BottomOf(d))

\* The number of (document, side) pairs whose snippet qualifies and does
\* not match the heading of the document
UnguardedPairs ==
  Cardinality({d \in 1..Len(borig) :
                 borig[d].parsable /\ TopOf(d) \in bn.top_remove /\ ~GuardedTop(d)})
  + Cardinality({d \in 1..Len(borig) :
                 borig[d].parsable /\ BottomOf(d) \in bn.bot_remove /\ ~GuardedBottom(d)})

C25_HeadingSnippetUntouched ==
  bpc \in {"docs", "done"} =>
     /\ \A d \in 1..(bidx - 1) :
           /\ GuardedTop(d) => TopNow(d) = TopOf(d)
           /\ GuardedBottom(d) => BottomNow(d) = BottomOf(d)
     /\ bn.removed + bn.kept <= UnguardedPairs

\* The counts never cover a guarded pair
C25_GuardedNotCounted ==
  bpc \in {"docs", "done"} => bn.removed + bn.kept <= UnguardedPairs

\* A handled document whose heading matches its qualifying top snippet
\* and still carries it, in a run that blanked the snippet elsewhere
C25_GuardKeepsSnippet ==
  /\ bpc = "done"
  /\ ~bn.dry_run
  /\ bn.removed > 0
  /\ \E d \in 1..Len(borig) : GuardedTop(d) /\ TopNow(d) = TopOf(d)

\* ---------------------------------------------------------------------
\* C26: every backlink points at an existing element: the fragment of its
\* href is an id set on an element of the document the href names; and
\* every reference id recorded by pass 1 for a document is the id of
\* some element of that document.
\* ---------------------------------------------------------------------
IdsIn(elems) ==
  { NodeId(elems, <<i, 0>>) : i \in 1..Len(elems) }
  \cup { elems[i].anchor[1].id : i \in {j \in 1..Len(elems) : elems[j].anchor # <<>>} }

\* The reference <<path, id>> names an element of a document of the book
Exists(bk, pth, rid) ==
  \E e \in 1..Len(bk.docs) : bk.docs[e].path = pth /\ rid \in IdsIn(bk.docs[e].elems)

\* The backlink anchor a of spine entry d resolves to an element
Resolves(bk, d, a) ==
  \E e \in 1..Len(bk.docs) :
     /\ rel_href(bk.docs[d].path, bk.docs[e].path, a.href.frag) = a.href
     /\ a.href.frag \in IdsIn(bk.docs[e].elems)

RecordedIdsExist(bk, locations) ==
  \A k \in DOMAIN locations :
     \A n \in 1..Len(locations[k]) : Exists(bk, locations[k][n][1], locations[k][n][2])

C26_RecordedIdsExist ==
  /\ RecordedIdsExist(ldocs, ldocs.num_ref_locations)
  /\ RecordedIdsExist(ldocs, ldocs.sym_ref_locations)

C26_BacklinksResolve ==
  \A d \in 1..Len(ldocs.docs) :
     \A i \in 1..Len(ldocs.docs[d].elems) :
        \A n \in 1..Len(ldocs.docs[d].elems[i].backlinks) :
           Resolves(ldocs, d, ldocs.docs[d].elems[i].backlinks[n])

C26_BacklinkTargetsExist == C26_BacklinksResolve /\ C26_RecordedIdsExist

\* ---------------------------------------------------------------------
\* C27: cover repair never discards reading content: a document that has
\* text and is not named like a cover page or a title page keeps its text
\* and the linear status of its itemrefs in every step of cover repair.
\* ---------------------------------------------------------------------
CoverNamed(q) ==
  \/ Head(q) \in CoverPageNames
  \/ \E k \in 1..Len(q) : q[k] \in TitlePageNames

\* The itemrefs of the spine of pk that refer to the item stored at q
ItemrefsOf(pk, q) ==
  {i \in 1..Len(pk.opf.spine) :
     \E j \in 1..Len(pk.opf.items) :
        pk.opf.items[j].id = pk.opf.spine[i].idref /\ pk.opf.items[j].href = q}

ReadingContentKept(before, after) ==
  \A q \in XhtmlPaths :
     (before.files[q].exists /\ before.files[q].text /\ ~CoverNamed(q)) =>
        /\ after.files[q].text
        /\ \A i \in ItemrefsOf(before, q) :
              after.opf.spine[i].linear = before.opf.spine[i].linear

C27_ReadingContentKept == [][ReadingContentKept(cv, cv')]_vars

\* ---------------------------------------------------------------------
\* C28: a forced run over a book the engine has already processed is a
\* fixed point for note linking: no node gains or changes an id, the
\* reference ids recorded per key are those of the run before, and every
\* note block has the backlinks the run before gave it.
\* ---------------------------------------------------------------------
\* The ids of the nodes of a document, by handle
NodeIds(elems) ==
  [i \in 1..Len(elems) |->
     <<elems[i].id, IF elems[i].anchor = <<>> THEN <<>> ELSE <<elems[i].anchor[1].id>> >>]

SameIds(a, b) ==
  /\ Len(a.docs) = Len(b.docs)
  /\ \A d \in 1..Len(a.docs) : NodeIds(a.docs[d].elems) = NodeIds(b.docs[d].elems)

\* {rid : (path, rid) recorded under k}, for every key
IdSets(locations) ==
  [k \in DOMAIN locations |-> {locations[k][n] : n \in 1..Len(locations[k])}]

SameBacklinks(a, b) ==
  \A d \in 1..Len(a.docs) :
     \A i \in 1..Len(a.docs[d].elems) :
        a.docs[d].elems[i].backlinks = b.docs[d].elems[i].backlinks

C28_RerunKeepsIds == (lrun >= 2 /\ lpc = "done") => SameIds(ldocs, lfirst)

C28_RerunKeepsBacklinks == (lrun >= 2 /\ lpc = "done") => SameBacklinks(ldocs, lfirst)

C28_RerunKeepsIdSets ==
  (lrun >= 2 /\ lpc = "done") =>
     /\ IdSets(ldocs.num_ref_locations) = IdSets(lfirst.num_ref_locations)
     /\ IdSets(ldocs.sym_ref_locations) = IdSets(lfirst.sym_ref_locations)

C28_ForcedRerunFixedPoint ==
  C28_RerunKeepsIds /\ C28_RerunKeepsIdSets /\ C28_RerunKeepsBacklinks

\* ---------------------------------------------------------------------
\* C29: symbol keys are resolved exactly: a note block whose id names
\* double-dagger is backlinked only to a reference recorded under the
\* double-dagger key, never to one recorded under the dagger key alone,
\* and the labels built for double-dagger targets and references are the
\* double-dagger labels.
\* ---------------------------------------------------------------------
DoubleDaggerKey == <<"double", "-", "dagger">>

DaggerKey == <<"dagger">>

RecordedUnder(bk, key) ==
  LET l == Get(bk.sym_ref_locations, key, <<>>)
  IN {l[n][2] : n \in 1..Len(l)}

\* The backlinks of a double-dagger note block lead to double-dagger
\* references
C29_BacklinkKeyExact ==
  \A d \in 1..Len(ldocs.docs) :
     \A i \in 1..Len(ldocs.docs[d].elems) :
        LET el == ldocs.docs[d].elems[i]
        IN (~Falsy(el.id) /\ Contains(el.id, DoubleDaggerKey)) =>
              \A n \in 1..Len(el.backlinks) :
                 el.backlinks[n].href.frag \in RecordedUnder(ldocs, DoubleDaggerKey)

\* The labels of the forward links to, and of the backlinks from,
\* double-dagger notes
C29_LabelsExact ==
  \A d \in 1..Len(ldocs.docs) :
     \A i \in 1..Len(ldocs.docs[d].elems) :
        LET el == ldocs.docs[d].elems[i]
        IN /\ (el.anchor # <<>> /\ el.anchor[1].href # NoHref
               /\ Contains(el.anchor[1].href.frag, DoubleDaggerKey)) =>
                 el.anchor[1].aria = <<"See double dagger note">>
           /\ \A n \in 1..Len(el.backlinks) :
                 Contains(el.backlinks[n].href.frag, DoubleDaggerKey) =>
                    el.backlinks[n].label = <<"Back to double dagger note reference">>

C29_SymbolKeysExact == C29_BacklinkKeyExact /\ C29_LabelsExact

\* The backlink labels alone are exact
C29_BacklinkLabelsExact ==
  \A d \in 1..Len(ldocs.docs) :
     \A i \in 1..Len(ldocs.docs[d].elems) :
        \A n \in 1..Len(ldocs.docs[d].elems[i].backlinks) :
           LET b == ldocs.docs[d].elems[i].backlinks[n]
           IN Contains(b.href.frag, DoubleDaggerKey) =>
                 b.label = <<"Back to double dagger note reference">>

\* ---------------------------------------------------------------------
\* C30: the paragraph merge terminates on every document and counts what
\* it removes: a node that is no paragraph, between or after paragraphs,
\* never makes the loop fail; every merge removes one paragraph; the
\* index advances whenever no merge is made; the count returned is the
\* number of paragraphs removed.
\* ---------------------------------------------------------------------
ParagraphsRemoved == Len(ParasOf(mg.orig)) - Len(ParasOf(mg.doc))

C30_MergeNeverFails == mgpc # "raised"

C30_CountIsParagraphsRemoved == mgpc = "done" => mg.merges = ParagraphsRemoved

C30_MergeTerminatesAndCounts ==
  C30_MergeNeverFails /\ C30_CountIsParagraphsRemoved

\* Every iteration that does not raise removes a node or advances the
\* index: 2 * (number of nodes) - i falls
C30_MeasureFalls ==
  [][(mgpc = "loop" /\ mgpc' = "loop") =>
        /\ 2 * Len(mg'.doc) - mg'.i < 2 * Len(mg.doc) - mg.i
        /\ mg'.merges = mg.merges => mg'.i = mg.i + 1]_vars

====
